---------------------------- MODULE Spec2Model ----------------------------
(***************************************************************************)
(* A model of the ILDA codec of ilda.rs: the entry writer (writer.rs), the *)
(* record and header readers (data.rs, parser.rs), the bulk decoder        *)
(* parser::read_bytes and the AnimationStreamWriter (animation.rs).        *)
(*                                                                         *)
(* Bytes are integers 0..255, byte slices are sequences.  Rust's 0-based   *)
(* indices are kept: At(b, k) is b[k] and Slice(b, lo, hi) is b[lo .. hi]. *)
(* A String is the sequence of its code points; as_bytes is its UTF-8      *)
(* encoding.  Option<String> is a record [some, s].                        *)
(***************************************************************************)
EXTENDS Integers, Sequences, FiniteSets, TLC

----------------------------------------------------------------------------
(* Bounds of the model *)

\* the most entries one IldaWriter session writes
MaxEntries == 4
\* the most frames one AnimationStreamWriter session writes
MaxFrames == 2
\* the most points in a frame
MaxPoints == 2

\* the longest slice handed to a record type's read_bytes on its own
MaxRunBytes == 21
\* the longest byte field handed to read_name on its own
MaxNameLen == 4
\* the most frames of an animation that is iterated over
MaxAnimFrames == 3
\* the most items of an entry stream handed to next_frame
MaxStreamLen == 3

\* longest frame of a write_frame_ext call on its own
MaxBlankPoints == 3

----------------------------------------------------------------------------
(* data.rs: sizes *)

HEADER_SIZE == 32
COLOR_PALETTE_SIZE == 3
INDEXED_2D_DATA_SIZE == 6
INDEXED_3D_DATA_SIZE == 8
TRUE_COLOR_2D_DATA_SIZE == 8
TRUE_COLOR_3D_DATA_SIZE == 10

\* "ILDA" in ASCII
ILDA_HEADER == <<73, 76, 68, 65>>

U16_MAX == 65535

----------------------------------------------------------------------------
(* slices, strings, integers *)

At(bytes, k) == bytes[k + 1]

Slice(bytes, lo, hi) == SubSeq(bytes, lo + 1, hi)

\* b[lo .. hi] panics unless lo <= hi <= b.len()
SliceInRange(bytes, lo, hi) == lo <= hi /\ hi <= Len(bytes)

None == [some |-> FALSE, s |-> <<>>]

Some(str) == [some |-> TRUE, s |-> str]

\* the UTF-8 encoding of one char (code points below 2048)
Utf8(cp) == IF cp < 128 THEN <<cp>> ELSE <<192 + (cp \div 64), 128 + (cp % 64)>>

RECURSIVE as_bytes(_)
as_bytes(str) ==
  IF str = <<>> THEN <<>> ELSE Utf8(Head(str)) \o as_bytes(Tail(str))

\* (x as u16) for an i16 or a usize x
AsU16(x) == (x + 65536) % 65536

\* (v as i16) for a u16 v
AsI16(v) == IF v >= 32768 THEN v - 65536 ELSE v

\* (v as u8)
AsU8(v) == v % 256

----------------------------------------------------------------------------
(* writer.rs *)

\* faulty variant: the low byte first
u16_be_LowFirst(value) == <<AsU8(value % 256), AsU8(value \div 256)>>

u16_be(value) == <<AsU8(value \div 256), AsU8(value % 256)>>

Min(a, b) == IF a < b THEN a ELSE b

str_8c(value) ==
  LET bytes == as_bytes(IF value.some THEN value.s ELSE <<>>)
      n == Min(Len(bytes), 8)
  IN [k \in 1..8 |-> IF k <= n THEN bytes[k] ELSE 0]

\* the bytes IldaWriter::write hands to the sink for one entry, in order
EntryBytes(entry) ==
  CASE entry.type = "Header" ->
         ILDA_HEADER
         \o <<0, 0, 0, entry.format_code>>
         \o str_8c(entry.name)
         \o str_8c(entry.company_name)
         \o u16_be(entry.record_count)
         \o u16_be(entry.number)
         \o u16_be(entry.total_frames)
         \o <<entry.projector_number>>
         \o <<0>>
    [] entry.type = "TcPoint3d" ->
         u16_be(AsU16(entry.x)) \o u16_be(AsU16(entry.y)) \o u16_be(AsU16(entry.z))
         \o <<entry.status_code>> \o <<entry.b>> \o <<entry.g>> \o <<entry.r>>
    [] entry.type = "TcPoint2d" ->
         u16_be(AsU16(entry.x)) \o u16_be(AsU16(entry.y))
         \o <<entry.status_code>> \o <<entry.b>> \o <<entry.g>> \o <<entry.r>>
    [] entry.type = "ColorPalette" ->
         <<entry.r>> \o <<entry.g>> \o <<entry.b>>
    [] entry.type = "IdxPoint3d" ->
         u16_be(AsU16(entry.x)) \o u16_be(AsU16(entry.y)) \o u16_be(AsU16(entry.z))
         \o <<entry.status_code>> \o <<entry.color_index>>
    [] entry.type = "IdxPoint2d" ->
         u16_be(AsU16(entry.x)) \o u16_be(AsU16(entry.y))
         \o <<entry.status_code>> \o <<entry.color_index>>

----------------------------------------------------------------------------
(* data.rs: entries *)

Header(reserved, format_code, name, company_name, record_count, number, total_frames, projector_number, reserved_2) ==
  [type |-> "Header", reserved |-> reserved, format_code |-> format_code,
   name |-> name, company_name |-> company_name, record_count |-> record_count,
   number |-> number, total_frames |-> total_frames,
   projector_number |-> projector_number, reserved_2 |-> reserved_2]

IndexedPoint3d(x, y, z, status_code, color_index) ==
  [type |-> "IdxPoint3d", x |-> x, y |-> y, z |-> z,
   status_code |-> status_code, color_index |-> color_index]

IndexedPoint2d(x, y, status_code, color_index) ==
  [type |-> "IdxPoint2d", x |-> x, y |-> y,
   status_code |-> status_code, color_index |-> color_index]

ColorPalette(r, g, b) == [type |-> "ColorPalette", r |-> r, g |-> g, b |-> b]

TrueColorPoint3d(x, y, z, status_code, b, g, r) ==
  [type |-> "TcPoint3d", x |-> x, y |-> y, z |-> z,
   status_code |-> status_code, b |-> b, g |-> g, r |-> r]

TrueColorPoint2d(x, y, status_code, b, g, r) ==
  [type |-> "TcPoint2d", x |-> x, y |-> y,
   status_code |-> status_code, b |-> b, g |-> g, r |-> r]

\* faulty variant: every other code is taken for the 3D indexed format
get_format_Lenient(format_code) ==
  CASE format_code = 1 -> "Indexed2d"
    [] format_code = 2 -> "ColorPalette"
    [] format_code = 4 -> "TrueColor3d"
    [] format_code = 5 -> "TrueColor2d"
    [] OTHER -> "Indexed3d"

\* Header::get_format: the format, or the InvalidHeader error
get_format(format_code) ==
  CASE format_code = 0 -> "Indexed3d"
    [] format_code = 1 -> "Indexed2d"
    [] format_code = 2 -> "ColorPalette"
    [] format_code = 4 -> "TrueColor3d"
    [] format_code = 5 -> "TrueColor2d"
    [] OTHER -> "InvalidHeader"

\* faulty variant: the codes 0..4 without a gap
FormatCode_Dense(format) ==
  CASE format = "Indexed3d" -> 0
    [] format = "Indexed2d" -> 1
    [] format = "ColorPalette" -> 2
    [] format = "TrueColor3d" -> 3
    [] format = "TrueColor2d" -> 4

FormatCode(format) ==
  CASE format = "Indexed3d" -> 0
    [] format = "Indexed2d" -> 1
    [] format = "ColorPalette" -> 2
    [] format = "TrueColor3d" -> 4
    [] format = "TrueColor2d" -> 5

\* Header::new
HeaderNew(format, name, company_name, record_count, number, total_frames, projector_number) ==
  Header(0, FormatCode(format), name, company_name, record_count, number,
         total_frames, projector_number, 0)

Bit(c) == IF c THEN 1 ELSE 0

\* faulty variant: the two flags take each other's bit
build_status_code_Swapped(is_blank, is_last) == Bit(is_blank) * 128 + Bit(is_last) * 64

build_status_code(is_blank, is_last) == Bit(is_last) * 128 + Bit(is_blank) * 64

\* a & b on unsigned integers
RECURSIVE BitAnd(_, _)
BitAnd(a, b) ==
  IF a = 0 \/ b = 0 THEN 0
  ELSE (a % 2) * (b % 2) + 2 * BitAnd(a \div 2, b \div 2)

\* faulty variant: the last-point bit is tested
IndexedPoint3d_is_blank_Last(point) == BitAnd(point.status_code, 128) = 128

\* IndexedPoint3d::is_blank
IndexedPoint3d_is_blank(point) == BitAnd(point.status_code, 64) = 64

\* IndexedPoint2d::is_blank
IndexedPoint2d_is_blank(point) == BitAnd(point.status_code, 64) = 64

\* TrueColorPoint3d::is_blank
TrueColorPoint3d_is_blank(point) == BitAnd(point.status_code, 64) = 64

\* TrueColorPoint2d::is_blank
TrueColorPoint2d_is_blank(point) == BitAnd(point.status_code, 64) = 64

\* is_blank of the point's own type
IsBlankOf(point) ==
  CASE point.type = "IdxPoint3d" -> IndexedPoint3d_is_blank(point)
    [] point.type = "IdxPoint2d" -> IndexedPoint2d_is_blank(point)
    [] point.type = "TcPoint3d" -> TrueColorPoint3d_is_blank(point)
    [] point.type = "TcPoint2d" -> TrueColorPoint2d_is_blank(point)

\* color.rs: the arms 0..63 of default_color_index, as <<r, g, b>>
DefaultColors ==
  << <<255, 0, 0>>, <<255, 16, 0>>, <<255, 32, 0>>, <<255, 48, 0>>,
     <<255, 64, 0>>, <<255, 80, 0>>, <<255, 96, 0>>, <<255, 112, 0>>,
     <<255, 128, 0>>, <<255, 144, 0>>, <<255, 160, 0>>, <<255, 176, 0>>,
     <<255, 192, 0>>, <<255, 208, 0>>, <<255, 224, 0>>, <<255, 240, 0>>,
     <<255, 255, 0>>, <<224, 255, 0>>, <<192, 255, 0>>, <<160, 255, 0>>,
     <<128, 255, 0>>, <<96, 255, 0>>, <<64, 255, 0>>, <<32, 255, 0>>,
     <<0, 255, 0>>, <<0, 255, 36>>, <<0, 255, 73>>, <<0, 255, 109>>,
     <<0, 255, 146>>, <<0, 255, 182>>, <<0, 255, 219>>, <<0, 255, 255>>,
     <<0, 227, 255>>, <<0, 198, 255>>, <<0, 170, 255>>, <<0, 142, 255>>,
     <<0, 113, 255>>, <<0, 85, 255>>, <<0, 56, 255>>, <<0, 28, 255>>,
     <<0, 0, 255>>, <<32, 0, 255>>, <<64, 0, 255>>, <<96, 0, 255>>,
     <<128, 0, 255>>, <<160, 0, 255>>, <<192, 0, 255>>, <<224, 0, 255>>,
     <<255, 0, 255>>, <<255, 32, 255>>, <<255, 64, 255>>, <<255, 96, 255>>,
     <<255, 128, 255>>, <<255, 160, 255>>, <<255, 192, 255>>, <<255, 224, 255>>,
     <<255, 255, 255>>, <<255, 224, 224>>, <<255, 192, 192>>, <<255, 160, 160>>,
     <<255, 128, 128>>, <<255, 96, 96>>, <<255, 64, 64>>, <<255, 32, 32>> >>

\* faulty variant: an index past the table wraps around
default_color_index_Wrap(index) ==
  LET c == DefaultColors[(index % 64) + 1] IN ColorPalette(c[1], c[2], c[3])

\* default_color_index: the table entry, white in the default arm
default_color_index(index) ==
  IF index \in 0..63
  THEN LET c == DefaultColors[index + 1] IN ColorPalette(c[1], c[2], c[3])
  ELSE ColorPalette(255, 255, 255)

\* TrueColorPoint2d::new
TrueColorPoint2dNew(x, y, r, g, b, is_last, is_blank) ==
  TrueColorPoint2d(x, y, build_status_code(is_blank, is_last), b, g, r)

----------------------------------------------------------------------------
(* results: Ok(entries), Err(err), or a panic of the thread *)

Ok(entries) == [kind |-> "Ok", err |-> "", entries |-> entries]

Err(err) == [kind |-> "Err", err |-> err, entries |-> <<>>]

Panic == [kind |-> "Panic", err |-> "", entries |-> <<>>]

Pending == [kind |-> "Pending", err |-> "", entries |-> <<>>]

----------------------------------------------------------------------------
(* parser.rs and data.rs: readers *)

read_u16(bytes) == At(bytes, 0) * 256 + At(bytes, 1)

\* faulty variant: the sign bit is dropped instead of interpreted
read_i16_Magnitude(bytes) == (At(bytes, 0) * 256 + At(bytes, 1)) % 32768

read_i16(bytes) == AsI16(At(bytes, 0) * 256 + At(bytes, 1))

\* faulty variant: a zero byte is skipped like the other unprintable bytes
RECURSIVE NameChars_NoBreak(_)
NameChars_NoBreak(bytes) ==
  IF bytes = <<>> THEN <<>>
  ELSE IF Head(bytes) < 31 THEN NameChars_NoBreak(Tail(bytes))
  ELSE <<Head(bytes)>> \o NameChars_NoBreak(Tail(bytes))

\* the chars read_name pushes: stop at the first 0, skip bytes below 31
RECURSIVE NameChars(_)
NameChars(bytes) ==
  IF bytes = <<>> THEN <<>>
  ELSE IF Head(bytes) = 0 THEN <<>>
  ELSE IF Head(bytes) < 31 THEN NameChars(Tail(bytes))
  ELSE <<Head(bytes)>> \o NameChars(Tail(bytes))

read_name(bytes) ==
  LET name == NameChars(bytes)
  IN IF Len(as_bytes(name)) = 0 THEN None ELSE Some(name)

\* the byte of the header block read_header takes projector_number from
ProjectorNumberIndex == 31

\* faulty variant: the magic is not looked at
read_header_AnyMagic(header_bytes) ==
  IF Len(header_bytes) # 32
  THEN Err("InvalidFormat")
  ELSE Ok(<<Header(0,
                   At(header_bytes, 7),
                   read_name(Slice(header_bytes, 8, 16)),
                   read_name(Slice(header_bytes, 16, 24)),
                   read_u16(Slice(header_bytes, 24, 26)),
                   read_u16(Slice(header_bytes, 26, 28)),
                   read_u16(Slice(header_bytes, 28, 30)),
                   At(header_bytes, ProjectorNumberIndex),
                   0)>>)

read_header(header_bytes) ==
  IF Len(header_bytes) # 32 \/ Slice(header_bytes, 0, 4) # ILDA_HEADER
  THEN Err("InvalidFormat")
  ELSE Ok(<<Header(0,
                   At(header_bytes, 7),
                   read_name(Slice(header_bytes, 8, 16)),
                   read_name(Slice(header_bytes, 16, 24)),
                   read_u16(Slice(header_bytes, 24, 26)),
                   read_u16(Slice(header_bytes, 26, 28)),
                   read_u16(Slice(header_bytes, 28, 30)),
                   At(header_bytes, ProjectorNumberIndex),
                   0)>>)

IndexedPoint3dAt(bytes, j) ==
  IndexedPoint3d(read_i16(Slice(bytes, j, j + 2)),
                 read_i16(Slice(bytes, j + 2, j + 4)),
                 read_i16(Slice(bytes, j + 4, j + 6)),
                 At(bytes, j + 6),
                 At(bytes, j + 7))

IndexedPoint3d_read_bytes(bytes) ==
  IF Len(bytes) % INDEXED_3D_DATA_SIZE # 0 THEN Err("InvalidData")
  ELSE LET size == Len(bytes) \div INDEXED_3D_DATA_SIZE
       IN Ok([k \in 1..size |->
                IndexedPoint3dAt(bytes, (k - 1) * INDEXED_3D_DATA_SIZE)])

IndexedPoint2dAt(bytes, j) ==
  IndexedPoint2d(read_i16(Slice(bytes, j, j + 2)),
                 read_i16(Slice(bytes, j + 2, j + 4)),
                 At(bytes, j + 4),
                 At(bytes, j + 5))

IndexedPoint2d_read_bytes(bytes) ==
  IF Len(bytes) % INDEXED_2D_DATA_SIZE # 0 THEN Err("InvalidData")
  ELSE LET size == Len(bytes) \div INDEXED_2D_DATA_SIZE
       IN Ok([k \in 1..size |->
                IndexedPoint2dAt(bytes, (k - 1) * INDEXED_2D_DATA_SIZE)])

ColorPaletteAt(bytes, j) ==
  ColorPalette(At(bytes, j), At(bytes, j + 1), At(bytes, j + 2))

\* faulty variant: no length check, the bytes of a partial record are dropped
ColorPalette_read_bytes_Floor(bytes) ==
  LET size == Len(bytes) \div COLOR_PALETTE_SIZE
  IN Ok([k \in 1..size |-> ColorPaletteAt(bytes, (k - 1) * COLOR_PALETTE_SIZE)])

ColorPalette_read_bytes(bytes) ==
  IF Len(bytes) % COLOR_PALETTE_SIZE # 0 THEN Err("InvalidData")
  ELSE LET size == Len(bytes) \div COLOR_PALETTE_SIZE
       IN Ok([k \in 1..size |->
                ColorPaletteAt(bytes, (k - 1) * COLOR_PALETTE_SIZE)])

\* the colour bytes are read at the fixed offsets 7, 8, 9 of the whole slice
TrueColorPoint3dAt(bytes, j) ==
  TrueColorPoint3d(read_i16(Slice(bytes, j, j + 2)),
                   read_i16(Slice(bytes, j + 2, j + 4)),
                   read_i16(Slice(bytes, j + 4, j + 6)),
                   At(bytes, j + 6),
                   At(bytes, 7),
                   At(bytes, 8),
                   At(bytes, 9))

TrueColorPoint3d_read_bytes(bytes) ==
  IF Len(bytes) % TRUE_COLOR_3D_DATA_SIZE # 0 THEN Err("InvalidData")
  ELSE LET size == Len(bytes) \div TRUE_COLOR_3D_DATA_SIZE
       IN Ok([k \in 1..size |->
                TrueColorPoint3dAt(bytes, (k - 1) * TRUE_COLOR_3D_DATA_SIZE)])

\* faulty variant: the colour bytes taken in the order red, green, blue
TrueColorPoint2dAt_RGB(bytes, j) ==
  TrueColorPoint2d(read_i16(Slice(bytes, j, j + 2)),
                   read_i16(Slice(bytes, j + 2, j + 4)),
                   At(bytes, j + 4),
                   At(bytes, j + 7),
                   At(bytes, j + 6),
                   At(bytes, j + 5))

TrueColorPoint2dAt(bytes, j) ==
  TrueColorPoint2d(read_i16(Slice(bytes, j, j + 2)),
                   read_i16(Slice(bytes, j + 2, j + 4)),
                   At(bytes, j + 4),
                   At(bytes, j + 5),
                   At(bytes, j + 6),
                   At(bytes, j + 7))

TrueColorPoint2d_read_bytes(bytes) ==
  IF Len(bytes) % TRUE_COLOR_2D_DATA_SIZE # 0 THEN Err("InvalidData")
  ELSE LET size == Len(bytes) \div TRUE_COLOR_2D_DATA_SIZE
       IN Ok([k \in 1..size |->
                TrueColorPoint2dAt(bytes, (k - 1) * TRUE_COLOR_2D_DATA_SIZE)])

\* the read_bytes of the record type of an entry
RecordReadBytes(type, bytes) ==
  CASE type = "IdxPoint3d" -> IndexedPoint3d_read_bytes(bytes)
    [] type = "IdxPoint2d" -> IndexedPoint2d_read_bytes(bytes)
    [] type = "ColorPalette" -> ColorPalette_read_bytes(bytes)
    [] type = "TcPoint3d" -> TrueColorPoint3d_read_bytes(bytes)
    [] type = "TcPoint2d" -> TrueColorPoint2d_read_bytes(bytes)

----------------------------------------------------------------------------
(* animation.rs: SimplePoint, Frame *)

SimplePoint(x, y, r, g, b, is_blank) ==
  [x |-> x, y |-> y, r |-> r, g |-> g, b |-> b, is_blank |-> is_blank]

Frame(points, frame_name, company_name) ==
  [points |-> points, frame_name |-> frame_name, company_name |-> company_name]

ErrInvalidData == "InvalidData"

ErrUnsupported == "Unsupported"

\* faulty variant: an indexed point gets the colour of index 0
ilda_entry_to_point_Red(entry) ==
  CASE entry.type = "Header" -> Err(ErrInvalidData)
    [] entry.type = "ColorPalette" -> Err(ErrUnsupported)
    [] entry.type \in {"TcPoint2d", "TcPoint3d"} ->
         Ok(<<SimplePoint(entry.x, entry.y, entry.r, entry.g, entry.b, IsBlankOf(entry))>>)
    [] entry.type \in {"IdxPoint2d", "IdxPoint3d"} ->
         LET color == default_color_index(0)
         IN Ok(<<SimplePoint(entry.x, entry.y, color.r, color.g, color.b, IsBlankOf(entry))>>)

\* ilda_entry_to_point
ilda_entry_to_point(entry) ==
  CASE entry.type = "Header" -> Err(ErrInvalidData)
    [] entry.type = "ColorPalette" -> Err(ErrUnsupported)
    [] entry.type = "TcPoint2d" ->
         Ok(<<SimplePoint(entry.x, entry.y, entry.r, entry.g, entry.b,
                          TrueColorPoint2d_is_blank(entry))>>)
    [] entry.type = "TcPoint3d" ->
         Ok(<<SimplePoint(entry.x, entry.y, entry.r, entry.g, entry.b,
                          TrueColorPoint3d_is_blank(entry))>>)
    [] entry.type = "IdxPoint2d" ->
         LET color == default_color_index(entry.color_index)
         IN Ok(<<SimplePoint(entry.x, entry.y, color.r, color.g, color.b,
                             IndexedPoint2d_is_blank(entry))>>)
    [] entry.type = "IdxPoint3d" ->
         LET color == default_color_index(entry.color_index)
         IN Ok(<<SimplePoint(entry.x, entry.y, color.r, color.g, color.b,
                             IndexedPoint3d_is_blank(entry))>>)

\* The entry iterator next_frame reads from: the items it will give, each
\* an entry or an error, and the number of items given so far.
EntryIter(items, pos) == [items |-> items, pos |-> pos]

OkItem(entry) == [ok |-> TRUE, entry |-> entry, err |-> ""]

ErrItem(err) == [ok |-> FALSE, entry |-> [type |-> "NoEntry"], err |-> err]

\* iter.next(): the iterator after the call and the Option returned
EntryIterNext(it) ==
  IF it.pos < Len(it.items)
  THEN [it |-> [it EXCEPT !.pos = @ + 1], some |-> TRUE, item |-> it.items[it.pos + 1]]
  ELSE [it |-> it, some |-> FALSE, item |-> ErrItem("")]

\* what next_frame returns, with the iterator it leaves behind; Ok(None) is
\* Ok(<<>>), Ok(Some(frame)) is Ok(<<frame>>)
Returned(it, r) == [it |-> it, result |-> r]

\* next_frame: the `while points_to_read > 0` loop
RECURSIVE NextFramePoints(_, _, _)
NextFramePoints(it, points_to_read, frame) ==
  IF ~(points_to_read > 0) THEN Returned(it, Ok(<<frame>>))
  ELSE LET n == EntryIterNext(it)
       IN IF ~n.some THEN Returned(n.it, Err(ErrInvalidData))
          ELSE IF ~n.item.ok THEN Returned(n.it, Err(n.item.err))
          ELSE LET point == ilda_entry_to_point(n.item.entry)
               IN IF point.kind = "Err" THEN Returned(n.it, point)
                  ELSE NextFramePoints(n.it, points_to_read - 1,
                                       [frame EXCEPT !.points = Append(@, point.entries[1])])

\* faulty variant: a header with record_count 0 gives a frame without points
next_frame_NoEof(it) ==
  LET n == EntryIterNext(it)
  IN IF ~n.some THEN Returned(n.it, Ok(<<>>))
     ELSE IF ~n.item.ok THEN Returned(n.it, Err(n.item.err))
     ELSE IF n.item.entry.type # "Header" THEN Returned(n.it, Err(ErrInvalidData))
     ELSE LET header == n.item.entry
          IN NextFramePoints(n.it, header.record_count,
                             Frame(<<>>, header.name, header.company_name))

\* next_frame
next_frame(it) ==
  LET n == EntryIterNext(it)
  IN IF ~n.some THEN Returned(n.it, Ok(<<>>))
     ELSE IF ~n.item.ok THEN Returned(n.it, Err(n.item.err))
     ELSE IF n.item.entry.type # "Header" THEN Returned(n.it, Err(ErrInvalidData))
     ELSE LET header == n.item.entry
              points_to_read == header.record_count
              frame == Frame(<<>>, header.name, header.company_name)
          IN IF points_to_read = 0 THEN Returned(n.it, Ok(<<>>))
             ELSE NextFramePoints(n.it, points_to_read, frame)

----------------------------------------------------------------------------
(* the values the operations are called with *)

\* the entries an IldaWriter session writes
EntrySamples ==
  { Header(0, 1, Some(<<65, 66>>), None, 2, 1, 1, 1, 0),
    Header(0, 0, None, None, 1, 0, 0, 0, 0),
    Header(0, 2, None, None, 1, 0, 0, 0, 0),
    Header(0, 4, None, None, 1, 0, 0, 0, 0),
    Header(0, 5, None, None, 0, 0, 0, 0, 0),
    Header(0, 3, None, None, 0, 0, 0, 0, 0),
    IndexedPoint2d(1, -2, 64, 3),
    IndexedPoint2d(-32768, 32767, 128, 255),
    IndexedPoint3d(-1, 256, 2, 0, 7),
    ColorPalette(1, 2, 3),
    TrueColorPoint3d(5, -6, 7, 192, 10, 20, 30) }

\* the k-th point of a frame: lit and blanked points alternate
PointSample(k) ==
  IF k % 2 = 1 THEN SimplePoint(-1, 2, 30, 20, 10, FALSE)
  ELSE SimplePoint(32767, -32768, 0, 255, 1, TRUE)

\* frames of 0 to MaxPoints points, with and without a name
FrameSamples ==
  { Frame([k \in 1..n |-> PointSample(k)], frame_name, None) :
      n \in 0..MaxPoints,
      frame_name \in {None, Some(<<70>>)} }

\* (number, total_frames) of a write_frame_ext call
FrameNumberSamples == { <<1, 2>> }

----------------------------------------------------------------------------
(* state *)

VARIABLES
  api,            \* "ilda": an IldaWriter; "anim": an AnimationStreamWriter; "codec"
  pc,             \* position of the session
  sink,           \* the bytes the sink has received
  written,        \* the entries passed to IldaWriter::write, in order
  finalized,      \* AnimationStreamWriter.finalized
  finishCount,    \* calls of write_finishing_header so far
  closedBy,       \* how the AnimationStreamWriter ended: "finalize", "drop" or "none"
  input,          \* read_bytes: ilda_bytes
  i,              \* read_bytes: i
  next_read,      \* read_bytes: next_read
  frames_to_read, \* read_bytes: frames_to_read
  vec,            \* read_bytes: vec
  result,         \* what the call returned
  arg,            \* the argument of the call a codec, guard or unit session makes
  elided,         \* point records written to the sink and left out of `sink`
  iter,           \* the AnimationPointIterator of an iterator session
  yielded         \* the points its next() has returned, in order

vars == <<api, pc, sink, written, finalized, finishCount, closedBy, input, i,
          next_read, frames_to_read, vec, result, arg, elided, iter, yielded>>

writerVars == <<sink, written, finalized, finishCount, closedBy>>

readerVars == <<input, i, next_read, frames_to_read, vec, result>>

NoEntry == [type |-> "NoEntry"]

----------------------------------------------------------------------------
(* writer.rs, animation.rs: the writers, as functions of the writer's state *)

WriterState == [sink |-> sink, written |-> written, finalized |-> finalized,
                finishCount |-> finishCount]

\* IldaWriter::write on a sink that accepts every byte
IldaWriter_write(w, entry) ==
  [w EXCEPT !.sink = @ \o EntryBytes(entry), !.written = Append(@, entry)]

RECURSIVE WritePoints(_, _, _)
WritePoints(w, points, k) ==
  IF k > Len(points) THEN w
  ELSE LET point == points[k]
           ilda_point == TrueColorPoint2dNew(point.x, point.y, point.r, point.g,
                                             point.b, k = Len(points), point.is_blank)
       IN WritePoints(IldaWriter_write(w, ilda_point), points, k + 1)

ErrTooManyPoints == "TooManyPoints"

\* faulty variant: the guard lets one point more through
TooManyPoints_OffByOne(len) == len > U16_MAX + 1

\* write_frame_ext: `frame.point_count() > u16::max_value() as usize`
TooManyPoints(len) == len > U16_MAX

\* write_frame_ext: the header of a frame of len points, `len as u16`
FrameHeader(len, frame_name, company_name, number, total_frames) ==
  HeaderNew("TrueColor2d", frame_name, company_name, AsU16(len), number,
            total_frames, 0)

\* AnimationStreamWriter::write_frame_ext: the writer after the call; a frame of
\* more than u16::max_value() points is refused before anything is written
write_frame_ext(w, frame, number, total_frames) ==
  LET len == Len(frame.points)
      header == FrameHeader(len, frame.frame_name, frame.company_name, number,
                            total_frames)
  IN IF TooManyPoints(len) THEN w
     ELSE WritePoints(IldaWriter_write(w, header), frame.points, 1)

\* write_frame_ext on a frame given by its point count: the writer after the
\* call, the number of point records the loop wrote, and the value returned.
\* The header is written to the sink; the records of the loop are counted.
write_frame_ext_sized(w, len, frame_name, company_name, number, total_frames) ==
  LET header == FrameHeader(len, frame_name, company_name, number, total_frames)
  IN IF TooManyPoints(len)
     THEN [w |-> w, points |-> 0, result |-> Err(ErrTooManyPoints)]
     ELSE [w |-> IldaWriter_write(w, header), points |-> len, result |-> Ok(<<>>)]

write_frame(w, frame) == write_frame_ext(w, frame, 0, 0)

write_finishing_header(w) ==
  LET header == HeaderNew("TrueColor2d", None, None, 0, 0, 0, 0)
  IN [IldaWriter_write(w, header) EXCEPT !.finishCount = @ + 1]

\* faulty variant: a Drop that writes nothing
drop_Silent(w) == w

\* Drop for AnimationStreamWriter
drop(w) == IF ~w.finalized THEN write_finishing_header(w) ELSE w

\* faulty variant: finalize() without setting the finalized flag
finalize_NoFlag(w) == drop(write_finishing_header(w))

\* AnimationStreamWriter::finalize; the consumed writer is dropped on return
finalize(w) == drop(write_finishing_header([w EXCEPT !.finalized = TRUE]))

SetWriter(w) ==
  /\ sink' = w.sink
  /\ written' = w.written
  /\ finalized' = w.finalized
  /\ finishCount' = w.finishCount

----------------------------------------------------------------------------
(* actions of the writers *)

IldaWrite ==
  /\ api = "ilda" /\ pc = "write"
  /\ Len(written) < MaxEntries
  /\ \E entry \in EntrySamples : SetWriter(IldaWriter_write(WriterState, entry))
  /\ UNCHANGED <<api, pc, closedBy, readerVars, arg, elided, iter, yielded>>

\* the IldaWriter goes out of scope; it has no Drop of its own
IldaClose ==
  /\ api = "ilda" /\ pc = "write"
  /\ pc' = "closed"
  /\ UNCHANGED <<api, writerVars, readerVars, arg, elided, iter, yielded>>

FramesWritten == Cardinality({k \in 1..Len(written) : written[k].type = "Header"})

WriteFrame ==
  /\ api = "anim" /\ pc = "write"
  /\ FramesWritten < MaxFrames
  /\ \E frame \in FrameSamples : SetWriter(write_frame(WriterState, frame))
  /\ UNCHANGED <<api, pc, closedBy, readerVars, arg, elided, iter, yielded>>

WriteFrameExt ==
  /\ api = "anim" /\ pc = "write"
  /\ FramesWritten < MaxFrames
  /\ \E frame \in FrameSamples, nt \in FrameNumberSamples :
       SetWriter(write_frame_ext(WriterState, frame, nt[1], nt[2]))
  /\ UNCHANGED <<api, pc, closedBy, readerVars, arg, elided, iter, yielded>>

Finalize ==
  /\ api = "anim" /\ pc = "write"
  /\ SetWriter(finalize(WriterState))
  /\ closedBy' = "finalize"
  /\ pc' = "closed"
  /\ UNCHANGED <<api, readerVars, arg, elided, iter, yielded>>

DropWriter ==
  /\ api = "anim" /\ pc = "write"
  /\ SetWriter(drop(WriterState))
  /\ closedBy' = "drop"
  /\ pc' = "closed"
  /\ UNCHANGED <<api, readerVars, arg, elided, iter, yielded>>

----------------------------------------------------------------------------
(* parser.rs: read_bytes, one action per arm of its loop *)

ErrFileTooShort == "InvalidFile: File too short."

ErrBadFormat == "InvalidFile: Bad format."

ErrInvalidFormat == "InvalidFormat"

\* faulty variant: an empty input passes the length check
FileTooShort_NonEmpty(ilda_bytes) == Len(ilda_bytes) > 0 /\ Len(ilda_bytes) < 32

FileTooShort(ilda_bytes) == Len(ilda_bytes) < 32

\* the NextRead a format selects
NextReadOf(format) ==
  CASE format = "Indexed3d" -> "I3d"
    [] format = "Indexed2d" -> "I2d"
    [] format = "ColorPalette" -> "Color"
    [] format = "TrueColor3d" -> "Tc3d"
    [] format = "TrueColor2d" -> "Tc2d"

\* the prefixes of the written stream handed to the decoder
CutPoints(bytes) == {0, 31, Len(bytes) - 1, Len(bytes)} \cap (0..Len(bytes))

Return(r) ==
  /\ result' = r
  /\ pc' = "done"

\* the call, the length check and the initialisation of the locals
ReadBytesCall ==
  /\ api \in {"ilda", "anim", "raw"} /\ pc = "closed"
  /\ \E k \in CutPoints(sink) :
       /\ input' = Slice(sink, 0, k)
       /\ IF FileTooShort(input')
          THEN /\ Return(Err(ErrFileTooShort))
               /\ UNCHANGED <<i, next_read, frames_to_read, vec>>
          ELSE /\ pc' = "loop"
               /\ vec' = <<>>
               /\ i' = 0
               /\ next_read' = "Header"
               /\ frames_to_read' = 0
               /\ UNCHANGED result
  /\ UNCHANGED <<api, writerVars, arg, elided, iter, yielded>>

ReadHeader ==
  /\ pc = "loop" /\ i < Len(input) /\ next_read = "Header"
  /\ IF ~SliceInRange(input, i, i + HEADER_SIZE)
     THEN /\ Return(Panic)
          /\ UNCHANGED <<i, next_read, frames_to_read, vec>>
     ELSE LET r == read_header(Slice(input, i, i + HEADER_SIZE))
              header == r.entries[1]
              format == get_format(header.format_code)
          IN IF r.kind = "Err"
             THEN /\ Return(r)
                  /\ UNCHANGED <<i, next_read, frames_to_read, vec>>
             ELSE IF format = "InvalidHeader"
             THEN /\ Return(Err(ErrBadFormat))
                  /\ UNCHANGED <<i, next_read, frames_to_read, vec>>
             ELSE /\ next_read' = NextReadOf(format)
                  /\ frames_to_read' = header.record_count
                  /\ vec' = Append(vec, header)
                  /\ i' = i + HEADER_SIZE
                  /\ UNCHANGED <<pc, result>>
  /\ UNCHANGED <<api, writerVars, input, arg, elided, iter, yielded>>

\* one record arm: slice the run, read it, append the records
ReadRecords(type, size) ==
  LET end == size * frames_to_read
  IN /\ pc = "loop" /\ i < Len(input)
     /\ IF ~SliceInRange(input, i, i + end)
        THEN /\ Return(Panic)
             /\ UNCHANGED <<i, next_read, frames_to_read, vec>>
        ELSE LET r == RecordReadBytes(type, Slice(input, i, i + end))
             IN IF r.kind = "Err"
                THEN /\ Return(Err(ErrInvalidFormat))
                     /\ UNCHANGED <<i, next_read, frames_to_read, vec>>
                ELSE /\ vec' = vec \o r.entries
                     /\ next_read' = "Header"
                     /\ i' = i + end
                     /\ UNCHANGED <<pc, result, frames_to_read>>
     /\ UNCHANGED <<api, writerVars, input, arg, elided, iter, yielded>>

ReadI3d == next_read = "I3d" /\ ReadRecords("IdxPoint3d", INDEXED_3D_DATA_SIZE)

ReadI2d == next_read = "I2d" /\ ReadRecords("IdxPoint2d", INDEXED_2D_DATA_SIZE)

ReadColor == next_read = "Color" /\ ReadRecords("ColorPalette", COLOR_PALETTE_SIZE)

ReadTc3d == next_read = "Tc3d" /\ ReadRecords("TcPoint3d", TRUE_COLOR_3D_DATA_SIZE)

ReadTc2d == next_read = "Tc2d" /\ ReadRecords("TcPoint2d", TRUE_COLOR_2D_DATA_SIZE)

\* the loop condition fails: Ok(vec)
ReadBytesReturn ==
  /\ pc = "loop" /\ ~(i < Len(input))
  /\ Return(Ok(vec))
  /\ UNCHANGED <<api, writerVars, input, i, next_read, frames_to_read, vec, arg, elided, iter, yielded>>

----------------------------------------------------------------------------
(* the stream sessions: a writer fills the sink, read_bytes decodes a prefix *)

Init ==
  /\ api \in {"ilda", "anim"}
  /\ pc = "write"
  /\ sink = <<>>
  /\ written = <<>>
  /\ finalized = FALSE
  /\ finishCount = 0
  /\ closedBy = "none"
  /\ input = <<>>
  /\ i = 0
  /\ next_read = "Header"
  /\ frames_to_read = 0
  /\ vec = <<>>
  /\ result = Pending
  /\ arg = NoEntry
  /\ elided = 0
  /\ iter = NoEntry
  /\ yielded = <<>>

Next ==
  \/ IldaWrite
  \/ IldaClose
  \/ WriteFrame
  \/ WriteFrameExt
  \/ Finalize
  \/ DropWriter
  \/ ReadBytesCall
  \/ ReadHeader
  \/ ReadI3d
  \/ ReadI2d
  \/ ReadColor
  \/ ReadTc3d
  \/ ReadTc2d
  \/ ReadBytesReturn

Spec == Init /\ [][Next]_vars

----------------------------------------------------------------------------
(* the codec sessions: one entry is written by IldaWriter::write and the     *)
(* bytes are read back by read_header or by the record type's read_bytes     *)

NameSamples ==
  { None,
    Some(<<65>>),
    Some(<<73, 76, 68, 65, 45, 49, 50, 51>>),
    Some(<<31, 127>>),
    Some(<<233>>),
    Some(<<9, 65>>),
    Some(<<65, 66, 67, 68, 69, 70, 71, 72, 73>>),
    Some(<<>>) }

I16Samples == {-32768, -1, 0, 258, 32767}

HeaderSamples ==
  { Header(rs[1], format_code, name, company_name, record_count, number,
           total_frames, projector_number, rs[2]) :
      rs \in {<<0, 0>>, <<7, 9>>},
      format_code \in {0, 5, 255},
      name \in NameSamples,
      company_name \in {None, Some(<<67, 79>>)},
      record_count \in {0, 1, 65535},
      number \in {0, 258},
      total_frames \in {0, 513},
      projector_number \in {0, 1, 255} }

RecordSamples ==
  { IndexedPoint2d(x, y, status_code, color_index) :
      x \in I16Samples, y \in {-2, 32767},
      status_code \in {0, 64, 255}, color_index \in {0, 63, 255} }
  \cup
  { IndexedPoint3d(x, y, z, status_code, color_index) :
      x \in I16Samples, y \in {-2, 32767}, z \in {-32768, 3},
      status_code \in {0, 64, 255}, color_index \in {0, 63, 255} }
  \cup
  { ColorPalette(r, g, b) : r \in {0, 30, 255}, g \in {0, 20, 255}, b \in {0, 10, 255} }
  \cup
  { TrueColorPoint2d(x, y, status_code, b, g, r) :
      x \in I16Samples, y \in {-2, 32767}, status_code \in {0, 64, 255},
      b \in {0, 10}, g \in {20, 255}, r \in {30, 31} }
  \cup
  { TrueColorPoint3d(x, y, z, status_code, b, g, r) :
      x \in I16Samples, y \in {-2, 32767}, z \in {-32768, 3},
      status_code \in {0, 64, 255},
      b \in {0, 10}, g \in {20, 255}, r \in {30, 31} }

CodecInit ==
  /\ api = "codec"
  /\ pc = "write"
  /\ arg \in HeaderSamples \cup RecordSamples
  /\ sink = <<>>
  /\ written = <<>>
  /\ finalized = FALSE
  /\ finishCount = 0
  /\ closedBy = "none"
  /\ input = <<>>
  /\ i = 0
  /\ next_read = "Header"
  /\ frames_to_read = 0
  /\ vec = <<>>
  /\ result = Pending
  /\ elided = 0
  /\ iter = NoEntry
  /\ yielded = <<>>

\* IldaWriter::write(arg)
CodecWrite ==
  /\ api = "codec" /\ pc = "write"
  /\ SetWriter(IldaWriter_write(WriterState, arg))
  /\ pc' = "closed"
  /\ UNCHANGED <<api, closedBy, readerVars, arg, elided, iter, yielded>>

\* read_header on the bytes written
CodecReadHeader ==
  /\ api = "codec" /\ pc = "closed" /\ arg.type = "Header"
  /\ input' = sink
  /\ Return(read_header(input'))
  /\ UNCHANGED <<api, writerVars, i, next_read, frames_to_read, vec, arg, elided, iter, yielded>>

\* the record type's read_bytes on the bytes written
CodecReadRecords ==
  /\ api = "codec" /\ pc = "closed" /\ arg.type # "Header"
  /\ input' = sink
  /\ Return(RecordReadBytes(arg.type, input'))
  /\ UNCHANGED <<api, writerVars, i, next_read, frames_to_read, vec, arg, elided, iter, yielded>>

CodecNext ==
  \/ CodecWrite
  \/ CodecReadHeader
  \/ CodecReadRecords

SpecCodec == CodecInit /\ [][CodecNext]_vars

----------------------------------------------------------------------------
(* the guard sessions: an AnimationStreamWriter is given frames of up to     *)
(* twice u16::max_value() points; the records of a frame are counted         *)

FrameLenSamples == {0, 1, U16_MAX - 1, U16_MAX, U16_MAX + 1, U16_MAX + 2, 2 * (U16_MAX + 1)}

SizedFrame(len, frame_name, number, total_frames) ==
  [type |-> "Frame", len |-> len, frame_name |-> frame_name,
   company_name |-> None, number |-> number, total_frames |-> total_frames]

GuardInit ==
  /\ api = "guard"
  /\ pc = "write"
  /\ sink = <<>>
  /\ written = <<>>
  /\ finalized = FALSE
  /\ finishCount = 0
  /\ closedBy = "none"
  /\ input = <<>>
  /\ i = 0
  /\ next_read = "Header"
  /\ frames_to_read = 0
  /\ vec = <<>>
  /\ result = Pending
  /\ arg = NoEntry
  /\ elided = 0
  /\ iter = NoEntry
  /\ yielded = <<>>

\* write_frame_ext(frame, number, total_frames); arg is the frame passed
GuardWriteFrameExt ==
  /\ api = "guard" /\ pc = "write"
  /\ FramesWritten < MaxFrames
  /\ \E len \in FrameLenSamples, frame_name \in {None, Some(<<70>>)},
        nt \in {<<0, 0>>, <<1, 2>>} :
       LET f == SizedFrame(len, frame_name, nt[1], nt[2])
           r == write_frame_ext_sized(WriterState, f.len, f.frame_name,
                                      f.company_name, f.number, f.total_frames)
       IN /\ arg' = f
          /\ SetWriter(r.w)
          /\ elided' = elided + r.points
          /\ result' = r.result
  /\ UNCHANGED <<api, pc, closedBy, input, i, next_read, frames_to_read, vec, iter, yielded>>

GuardFinalize ==
  /\ api = "guard" /\ pc = "write"
  /\ SetWriter(finalize(WriterState))
  /\ closedBy' = "finalize"
  /\ pc' = "closed"
  /\ UNCHANGED <<api, readerVars, arg, elided, iter, yielded>>

GuardNext ==
  \/ GuardWriteFrameExt
  \/ GuardFinalize

SpecGuard == GuardInit /\ [][GuardNext]_vars

----------------------------------------------------------------------------
(* the unit sessions: one function is called once on an argument drawn from  *)
(* a set of samples; arg is the call, result is what it returned             *)

\* a call of fn on the record v of its arguments
Call(fn, v) == [type |-> "Call", fn |-> fn, v |-> v]

Bytes(bytes) == [bytes |-> bytes]

\* a 32-byte block given by its fields
RawHeader(magic, reserved, format_code, name, company, record_count, number, total_frames, b30, b31) ==
  magic \o reserved \o <<format_code>> \o name \o company \o record_count
  \o number \o total_frames \o <<b30>> \o <<b31>>

RawHeaderSamples ==
  { RawHeader(magic, reserved, format_code, name, company, record_count, number,
              total_frames, b30, b31) :
      magic \in {ILDA_HEADER, <<73, 76, 68, 66>>, <<0, 0, 0, 0>>},
      reserved \in {<<0, 0, 0>>, <<1, 2, 3>>},
      format_code \in {0, 3, 5},
      name \in {<<84, 69, 83, 84, 0, 0, 0, 0>>, <<0, 0, 0, 0, 0, 0, 0, 0>>,
                <<65, 9, 66, 0, 67, 68, 69, 70>>},
      company \in {<<65, 67, 77, 69, 0, 0, 0, 0>>, <<49, 50, 51, 52, 53, 54, 55, 56>>},
      record_count \in {<<0, 1>>, <<1, 0>>, <<255, 255>>},
      number \in {<<0, 0>>, <<1, 2>>},
      total_frames \in {<<0, 0>>, <<2, 1>>},
      b30 \in {0, 7},
      b31 \in {0, 9} }

\* blocks of 31 and of 33 bytes besides
ReadHeaderCalls ==
  { Call("read_header", Bytes(bytes)) : bytes \in RawHeaderSamples }
  \cup { Call("read_header", Bytes(Slice(bytes, 0, 31))) : bytes \in {b \in RawHeaderSamples : At(b, 30) = 7 /\ At(b, 7) = 5} }
  \cup { Call("read_header", Bytes(bytes \o <<0>>)) : bytes \in {b \in RawHeaderSamples : At(b, 30) = 7 /\ At(b, 7) = 5} }

Formats == {"Indexed3d", "Indexed2d", "ColorPalette", "TrueColor3d", "TrueColor2d"}

\* a header of every format code, and the arguments of Header::new
FormatCalls ==
  { Call("get_format", Header(0, format_code, None, None, 0, 0, 0, 0, 0)) :
      format_code \in 0..255 }
  \cup
  { Call("Header::new", [format |-> format, name |-> name, company_name |-> None,
                         record_count |-> record_count, number |-> 1,
                         total_frames |-> 2, projector_number |-> projector_number]) :
      format \in Formats, name \in {None, Some(<<65>>)},
      record_count \in {0, 1, 65535}, projector_number \in {0, 255} }

RecordTypes == {"IdxPoint3d", "IdxPoint2d", "ColorPalette", "TcPoint3d", "TcPoint2d"}

\* n bytes, the k-th of them (0-based) being (seed + 37 * k) mod 256
PatternBytes(seed, n) == [k \in 1..n |-> (seed + 37 * (k - 1)) % 256]

\* slices of every length up to MaxRunBytes for each record type
RecordReadCalls ==
  { Call("read_bytes", [type |-> type, bytes |-> PatternBytes(seed, n)]) :
      type \in RecordTypes, seed \in {0, 200}, n \in 0..MaxRunBytes }

\* a point of each of the four point types with every status code
IsBlankCalls ==
  { Call("is_blank", point) :
      point \in UNION { { IndexedPoint3d(1, -2, 3, status_code, 4),
                          IndexedPoint2d(1, -2, status_code, 4),
                          TrueColorPoint3d(1, -2, 3, status_code, 10, 20, 30),
                          TrueColorPoint2d(1, -2, status_code, 10, 20, 30) } :
                        status_code \in 0..255 } }

NameByteSamples == {0, 9, 30, 31, 102, 200}

\* every byte field of up to MaxNameLen bytes over NameByteSamples
ReadNameCalls ==
  { Call("read_name", Bytes(bytes)) :
      bytes \in UNION { [1..n -> NameByteSamples] : n \in 0..MaxNameLen } }

\* every i8 index
ColorIndexCalls ==
  { Call("default_color_index", [index |-> index]) : index \in (-128)..127 }

\* entries of every variant
EntryToPointCalls ==
  { Call("ilda_entry_to_point", entry) :
      entry \in
        { Header(0, 5, None, None, 1, 0, 0, 0, 0), Header(0, 1, Some(<<65>>), None, 0, 0, 0, 0, 0),
          ColorPalette(1, 2, 3) }
        \cup { IndexedPoint2d(x, -10000, status_code, color_index) :
                 x \in {0, 10000}, status_code \in {0, 64, 128, 255},
                 color_index \in {0, 24, 57, 63, 64, 128, 255} }
        \cup { IndexedPoint3d(x, 32767, 5, status_code, color_index) :
                 x \in {-32768, 1}, status_code \in {0, 64, 128, 255},
                 color_index \in {0, 24, 57, 63, 64, 128, 255} }
        \cup { TrueColorPoint2d(x, -10000, status_code, 32, 127, r) :
                 x \in {0, 10000}, status_code \in {0, 64, 128, 255}, r \in {0, 255} }
        \cup { TrueColorPoint3d(x, 2, 3, status_code, b, 20, 30) :
                 x \in {-1, 1}, status_code \in {0, 64, 128, 255}, b \in {10, 255} } }

StreamItemSamples ==
  { OkItem(Header(0, 5, Some(<<70>>), None, 0, 0, 0, 0, 0)),
    OkItem(Header(0, 5, Some(<<70>>), Some(<<67>>), 1, 0, 0, 0, 0)),
    OkItem(Header(0, 2, None, None, 2, 0, 0, 0, 0)),
    OkItem(TrueColorPoint2d(1, -2, 0, 10, 20, 30)),
    OkItem(IndexedPoint3d(3, 4, 5, 192, 24)),
    OkItem(ColorPalette(1, 2, 3)),
    ErrItem("Io") }

\* every entry stream of up to MaxStreamLen items
NextFrameCalls ==
  { Call("next_frame", [items |-> items]) :
      items \in UNION { [1..n -> StreamItemSamples] : n \in 0..MaxStreamLen } }

\* frames of 0 to MaxBlankPoints points, every choice of blanked points
BlankFrameCalls ==
  { Call("write_frame_ext",
         [frame |-> Frame([k \in 1..n |-> SimplePoint(k, -k, 30, 20, 10, blank[k])],
                          None, None),
          number |-> 1, total_frames |-> 2]) :
      n \in 0..MaxBlankPoints, blank \in [1..MaxBlankPoints -> BOOLEAN] }

UnitCalls ==
  BlankFrameCalls \cup ReadHeaderCalls \cup FormatCalls \cup RecordReadCalls \cup IsBlankCalls
  \cup ReadNameCalls \cup ColorIndexCalls \cup EntryToPointCalls
  \cup NextFrameCalls

UnitInit ==
  /\ api = "unit"
  /\ pc = "call"
  /\ arg \in UnitCalls
  /\ sink = <<>>
  /\ written = <<>>
  /\ finalized = FALSE
  /\ finishCount = 0
  /\ closedBy = "none"
  /\ input = <<>>
  /\ i = 0
  /\ next_read = "Header"
  /\ frames_to_read = 0
  /\ vec = <<>>
  /\ result = Pending
  /\ elided = 0
  /\ iter = NoEntry
  /\ yielded = <<>>

\* the call arg.fn(arg.v) returns r
UnitReturn(fn, r) ==
  /\ api = "unit" /\ pc = "call" /\ arg.fn = fn
  /\ Return(r)
  /\ UNCHANGED <<api, writerVars, input, i, next_read, frames_to_read, vec, arg, elided, iter, yielded>>

UnitReadHeader == UnitReturn("read_header", read_header(arg.v.bytes))

\* Header::get_format as a Result
Header_get_format(header) ==
  LET format == get_format(header.format_code)
  IN IF format = "InvalidHeader" THEN Err(format) ELSE Ok(<<format>>)

UnitGetFormat == UnitReturn("get_format", Header_get_format(arg.v))

UnitHeaderNew ==
  UnitReturn("Header::new",
             Ok(<<HeaderNew(arg.v.format, arg.v.name, arg.v.company_name,
                            arg.v.record_count, arg.v.number, arg.v.total_frames,
                            arg.v.projector_number)>>))

\* X::read_bytes of the record type X
UnitRecordReadBytes ==
  UnitReturn("read_bytes", RecordReadBytes(arg.v.type, arg.v.bytes))

\* is_blank of a point; the bool is the one element of result.entries
UnitIsBlank == UnitReturn("is_blank", Ok(<<IsBlankOf(arg.v)>>))

\* read_name; the Option<String> is the one element of result.entries
UnitReadName == UnitReturn("read_name", Ok(<<read_name(arg.v.bytes)>>))

UnitDefaultColorIndex ==
  UnitReturn("default_color_index", Ok(<<default_color_index(arg.v.index)>>))

UnitEntryToPoint == UnitReturn("ilda_entry_to_point", ilda_entry_to_point(arg.v))

\* next_frame on a fresh iterator over arg.v.items; iter is the iterator after
\* the call
UnitNextFrame ==
  /\ api = "unit" /\ pc = "call" /\ arg.fn = "next_frame"
  /\ LET r == next_frame(EntryIter(arg.v.items, 0))
     IN /\ iter' = r.it
        /\ Return(r.result)
  /\ UNCHANGED <<api, writerVars, input, i, next_read, frames_to_read, vec, arg, elided, yielded>>

\* write_frame_ext on a new AnimationStreamWriter
UnitWriteFrameExt ==
  /\ api = "unit" /\ pc = "call" /\ arg.fn = "write_frame_ext"
  /\ SetWriter(write_frame_ext(WriterState, arg.v.frame, arg.v.number, arg.v.total_frames))
  /\ Return(Ok(<<>>))
  /\ UNCHANGED <<api, closedBy, input, i, next_read, frames_to_read, vec, arg, elided, iter, yielded>>

UnitNext ==
  \/ UnitReadHeader
  \/ UnitWriteFrameExt
  \/ UnitNextFrame
  \/ UnitEntryToPoint
  \/ UnitDefaultColorIndex
  \/ UnitReadName
  \/ UnitIsBlank
  \/ UnitRecordReadBytes
  \/ UnitGetFormat
  \/ UnitHeaderNew

SpecUnit == UnitInit /\ [][UnitNext]_vars

----------------------------------------------------------------------------
(* the raw sessions: read_bytes decodes a prefix of a file that no writer of *)
(* this crate produced; sink holds the file                                  *)

\* a header block with record_count 1, the names "TEST" and "ACME", and one
\* record after it
RawFrame(magic, format_code, record) ==
  RawHeader(magic, <<0, 0, 0>>, format_code, <<84, 69, 83, 84, 0, 0, 0, 0>>,
            <<65, 67, 77, 69, 0, 0, 0, 0>>, <<0, 1>>, <<0, 0>>, <<0, 0>>, 0, 0)
  \o record

\* a true-colour 2D frame, with or without the magic, alone or followed by a
\* frame of any format, with or without the magic
RawStreamSamples ==
  { first \o rest :
      first \in { RawFrame(magic, 5, <<0, 0, 0, 0, status_code, b, 20, r>>) :
                    magic \in {ILDA_HEADER, <<73, 76, 68, 66>>},
                    status_code \in {0, 64}, b \in {0, 10}, r \in {30, 255} },
      rest \in {<<>>} \cup
               { RawFrame(magic, fw[1], PatternBytes(7, fw[2])) :
                   magic \in {ILDA_HEADER, <<0, 76, 68, 65>>},
                   fw \in {<<0, INDEXED_3D_DATA_SIZE>>, <<1, INDEXED_2D_DATA_SIZE>>,
                           <<2, COLOR_PALETTE_SIZE>>, <<4, TRUE_COLOR_3D_DATA_SIZE>>,
                           <<5, TRUE_COLOR_2D_DATA_SIZE>>} } }

RawInit ==
  /\ api = "raw"
  /\ pc = "closed"
  /\ sink \in RawStreamSamples
  /\ written = <<>>
  /\ finalized = FALSE
  /\ finishCount = 0
  /\ closedBy = "none"
  /\ input = <<>>
  /\ i = 0
  /\ next_read = "Header"
  /\ frames_to_read = 0
  /\ vec = <<>>
  /\ result = Pending
  /\ arg = NoEntry
  /\ elided = 0
  /\ iter = NoEntry
  /\ yielded = <<>>

RawNext ==
  \/ ReadBytesCall
  \/ ReadHeader
  \/ ReadI3d
  \/ ReadI2d
  \/ ReadColor
  \/ ReadTc3d
  \/ ReadTc2d
  \/ ReadBytesReturn

SpecRaw == RawInit /\ [][RawNext]_vars

----------------------------------------------------------------------------
(* animation.rs: AnimationPointIterator; a session makes the iterator and    *)
(* calls next() until it returns None                                        *)

\* the sentinel point of the tests: point(color)
SentinelPoint(color) == SimplePoint(0, 0, color, color, color, FALSE)

RECURSIVE SumTo(_, _)
SumTo(counts, n) == IF n = 0 THEN 0 ELSE SumTo(counts, n - 1) + counts[n]

\* the animation whose k-th frame has counts[k] points, the points of the
\* animation being point(0), point(1), ... in order
AnimationOf(counts) ==
  [k \in 1..Len(counts) |->
     Frame([j \in 1..counts[k] |-> SentinelPoint(SumTo(counts, k - 1) + j - 1)],
           None, None)]

AnimationSamples ==
  { AnimationOf(counts) :
      counts \in UNION { [1..n -> 0..MaxPoints] : n \in 0..MaxAnimFrames } }

\* Vec::get on a 0-based position
VecGet(v, position) ==
  IF position < Len(v) THEN [some |-> TRUE, v |-> v[position + 1]]
  ELSE [some |-> FALSE, v |-> NoEntry]

\* Animation::into_point_iter
into_point_iter(animation) ==
  [animation |-> animation, current_frame |-> VecGet(animation, 0),
   frame_index |-> 0, point_index |-> 0]

\* AnimationPointIterator::next_point_for_frame: the iterator after the call
\* and the Option returned
next_point_for_frame(it) ==
  IF ~it.current_frame.some THEN [it |-> it, item |-> VecGet(<<>>, 0)]
  ELSE LET point == VecGet(it.current_frame.v.points, it.point_index)
       IN IF point.some
          THEN [it |-> [it EXCEPT !.point_index = @ + 1], item |-> point]
          ELSE [it |-> it, item |-> point]

\* AnimationPointIterator::next_frame: the iterator after the call
IterNextFrame(it) ==
  [it EXCEPT !.frame_index = @ + 1,
             !.point_index = 0,
             !.current_frame = VecGet(it.animation, it.frame_index + 1)]

\* Iterator::next for AnimationPointIterator
IterNext(it) ==
  LET first == next_point_for_frame(it)
  IN IF first.item.some THEN first
     ELSE next_point_for_frame(IterNextFrame(first.it))

IterInit ==
  /\ api = "iter"
  /\ pc = "call"
  /\ arg \in { [type |-> "Animation", frames |-> a] : a \in AnimationSamples }
  /\ sink = <<>>
  /\ written = <<>>
  /\ finalized = FALSE
  /\ finishCount = 0
  /\ closedBy = "none"
  /\ input = <<>>
  /\ i = 0
  /\ next_read = "Header"
  /\ frames_to_read = 0
  /\ vec = <<>>
  /\ result = Pending
  /\ elided = 0
  /\ iter = NoEntry
  /\ yielded = <<>>

\* animation.into_point_iter()
IntoPointIter ==
  /\ api = "iter" /\ pc = "call"
  /\ iter' = into_point_iter(arg.frames)
  /\ pc' = "next"
  /\ UNCHANGED <<api, writerVars, readerVars, arg, elided, yielded>>

\* iter.next(); the session ends when it returns None
IterNextCall ==
  /\ api = "iter" /\ pc = "next"
  /\ LET r == IterNext(iter)
     IN /\ iter' = r.it
        /\ IF r.item.some
           THEN /\ yielded' = Append(yielded, r.item.v)
                /\ result' = Ok(<<r.item.v>>)
                /\ pc' = "next"
           ELSE /\ yielded' = yielded
                /\ result' = Ok(<<>>)
                /\ pc' = "done"
  /\ UNCHANGED <<api, writerVars, input, i, next_read, frames_to_read, vec, arg, elided>>

IterSpecNext ==
  \/ IntoPointIter
  \/ IterNextCall

SpecIter == IterInit /\ [][IterSpecNext]_vars

----------------------------------------------------------------------------
(* Header round trip *)

\* a name that is absent, or 1 to 8 bytes that are all non-zero and >= 31
ValidName(name) ==
  \/ ~name.some
  \/ LET bytes == as_bytes(name.s)
     IN /\ Len(bytes) \in 1..8
        /\ \A k \in 1..Len(bytes) : bytes[k] # 0 /\ bytes[k] >= 31

SameHeaderFields(a, b) ==
  /\ a.format_code = b.format_code
  /\ a.name = b.name
  /\ a.company_name = b.company_name
  /\ a.record_count = b.record_count
  /\ a.number = b.number
  /\ a.total_frames = b.total_frames
  /\ a.projector_number = b.projector_number

HeaderDecoded ==
  api = "codec" /\ pc = "done" /\ arg.type = "Header"

\* C1: for every header h with valid names, read_header of the 32 bytes that
\* IldaWriter::write emits for h yields a header equal to h in format_code,
\* name, company_name, record_count, number, total_frames and projector_number.
C1_HeaderRoundTrip ==
  (HeaderDecoded /\ ValidName(arg.name) /\ ValidName(arg.company_name))
    => (result.kind = "Ok" /\ SameHeaderFields(result.entries[1], arg))

----------------------------------------------------------------------------
(* Record round trip *)

RecordDecoded ==
  api = "codec" /\ pc = "done" /\ arg.type # "Header"

\* C2: for each of the five record types and every value of its fields, the
\* type's read_bytes on the bytes IldaWriter::write emits for one record yields
\* exactly one record, equal to the original in every field.
C2_RecordRoundTrip ==
  RecordDecoded => (result.kind = "Ok" /\ result.entries = <<arg>>)

\* a true-color 3D record with a negative coordinate has made the round trip
C2_Witness ==
  /\ RecordDecoded
  /\ arg.type = "TcPoint3d" /\ arg.x < 0 /\ arg.b # arg.r
  /\ result.kind = "Ok"

----------------------------------------------------------------------------
(* the wire format, stated on the bytes *)

KnownFormatCodes == {0, 1, 2, 4, 5}

\* the width of one record under a format code
RecordWidth(format_code) ==
  CASE format_code = 0 -> INDEXED_3D_DATA_SIZE
    [] format_code = 1 -> INDEXED_2D_DATA_SIZE
    [] format_code = 2 -> COLOR_PALETTE_SIZE
    [] format_code = 4 -> TRUE_COLOR_3D_DATA_SIZE
    [] format_code = 5 -> TRUE_COLOR_2D_DATA_SIZE

\* the entry variant a format code selects
VariantOf(format_code) ==
  CASE format_code = 0 -> "IdxPoint3d"
    [] format_code = 1 -> "IdxPoint2d"
    [] format_code = 2 -> "ColorPalette"
    [] format_code = 4 -> "TcPoint3d"
    [] format_code = 5 -> "TcPoint2d"
    [] OTHER -> "Unknown"

\* a whole header block with the magic starts at offset p
HeaderBlockAt(bytes, p) ==
  /\ SliceInRange(bytes, p, p + 32)
  /\ Slice(bytes, p, p + 4) = ILDA_HEADER

WireFormatCode(bytes, p) == At(bytes, p + 7)

WireRecordCount(bytes, p) == At(bytes, p + 24) * 256 + At(bytes, p + 25)

\* the input ends inside the header that starts at offset p, or before the
\* records its header declares; a zero-count header ends the stream
RECURSIVE TruncatedFrom(_, _)
TruncatedFrom(bytes, p) ==
  LET left == Len(bytes) - p
  IN IF left = 0 THEN FALSE
     ELSE IF left < 32 THEN TRUE
     ELSE IF ~HeaderBlockAt(bytes, p) THEN FALSE
     ELSE LET code == WireFormatCode(bytes, p)
              n == WireRecordCount(bytes, p)
          IN IF n = 0 \/ code \notin KnownFormatCodes THEN FALSE
             ELSE IF left - 32 < n * RecordWidth(code) THEN TRUE
             ELSE TruncatedFrom(bytes, p + 32 + n * RecordWidth(code))

Truncated(bytes) == TruncatedFrom(bytes, 0)

IsZeroCountHeader(entry) == entry.type = "Header" /\ entry.record_count = 0

SameEntry(a, b) ==
  /\ a.type = b.type
  /\ IF a.type = "Header" THEN SameHeaderFields(a, b) ELSE a = b

SameEntries(as, bs) ==
  /\ Len(as) = Len(bs)
  /\ \A k \in 1..Len(as) : SameEntry(as[k], bs[k])

Decoded == api \in {"ilda", "anim"} /\ pc = "done"

----------------------------------------------------------------------------
(* Stream round trip *)

\* one format-1 header with record_count = N, N IndexedPoint2d, the finishing
\* header the encoder appends; the whole output is decoded
PointStreamDecoded ==
  /\ api = "ilda" /\ pc = "done" /\ input = sink
  /\ Len(written) >= 3
  /\ written[1].type = "Header" /\ written[1].format_code = 1
  /\ written[1].record_count = Len(written) - 2
  /\ \A k \in 2..(Len(written) - 1) : written[k].type = "IdxPoint2d"
  /\ written[Len(written)] = HeaderNew("TrueColor2d", None, None, 0, 0, 0, 0)

\* C3: encoding N >= 1 IndexedPoint2d under one format-1 header with
\* record_count = N, then the terminal header, and decoding the output
\* reproduces the header, the N points in order and the terminal header, and
\* nothing else.
C3_StreamRoundTrip ==
  PointStreamDecoded => (result.kind = "Ok" /\ SameEntries(result.entries, written))

----------------------------------------------------------------------------
(* Zero-count headers *)

\* C4: a header with record_count = 0 terminates decoding: it is the last entry
\* the decoder emits, whatever follows it in the input, and the decode ends
\* successfully with the entries up to it.
C4_ZeroCountTerminates ==
  api \in {"ilda", "anim"} =>
    \A k \in 1..Len(vec) :
      IsZeroCountHeader(vec[k]) =>
        /\ k = Len(vec)
        /\ pc = "done" => result = Ok(vec)

\* the decoder stopped at a header position holding a zero-count header whose
\* format code is none of 0, 1, 2, 4, 5
AtZeroCountUnknownHeader ==
  /\ Decoded /\ next_read = "Header"
  /\ HeaderBlockAt(input, i)
  /\ WireFormatCode(input, i) \notin KnownFormatCodes
  /\ WireRecordCount(input, i) = 0

----------------------------------------------------------------------------
(* Empty and truncated input *)

C7_TruncatedIsError ==
  (Decoded /\ Truncated(input)) => result.kind = "Err"

----------------------------------------------------------------------------
(* Shape of a successful decode *)

Shape(entries) ==
  /\ Len(entries) >= 1
  /\ entries[1].type = "Header"
  /\ \A k \in 1..Len(entries) :
       entries[k].type = "Header" =>
         LET n == entries[k].record_count
         IN /\ k + n <= Len(entries)
            /\ \A j \in (k + 1)..(k + n) :
                 entries[j].type = VariantOf(entries[k].format_code)
            /\ k + n = Len(entries) \/ entries[k + n + 1].type = "Header"

\* C8: in every successful decode the first entry is a Header and each Header
\* with record_count n is followed by exactly n entries of the variant its
\* format code selects, before the next Header or the end.
C8_Shape ==
  (Decoded /\ result.kind = "Ok") => Shape(result.entries)

----------------------------------------------------------------------------
(* The terminal header of the AnimationStreamWriter *)

AnimClosed == api = "anim" /\ pc # "write"

\* the sink ends with a whole header block whose record_count is 0
EndsWithZeroCountHeader(bytes) ==
  /\ Len(bytes) >= 32
  /\ HeaderBlockAt(bytes, Len(bytes) - 32)
  /\ WireRecordCount(bytes, Len(bytes) - 32) = 0

\* C9: however the writer ends, by finalize() or by being dropped, the sink
\* ends with a 32-byte header whose record_count is 0 and the finishing header
\* was written exactly once.
C9_TerminalHeaderOnce ==
  AnimClosed =>
    /\ EndsWithZeroCountHeader(sink)
    /\ finishCount = 1
    /\ IsZeroCountHeader(written[Len(written)])
    /\ \A k \in 1..(Len(written) - 1) :
         written[k].type = "Header" => k + written[k].record_count < Len(written)

\* a writer that wrote a frame with points was ended by finalize()
C9_Witness ==
  /\ AnimClosed /\ closedBy = "finalize"
  /\ Len(written) >= 3
  /\ finishCount = 1

\* C10: the bytes in the sink after finalize() are the bytes in the sink after
\* dropping the writer instead: every step that ends the writer leaves both.
C10_FinalizeDropEquivalent ==
  [][(api = "anim" /\ pc = "write" /\ pc' = "closed")
       => (sink' = finalize(WriterState).sink /\ sink' = drop(WriterState).sink)]_vars

\* a writer that wrote a frame with points was dropped without finalize()
C10_Witness ==
  /\ AnimClosed /\ closedBy = "drop"
  /\ Len(written) >= 3
  /\ EndsWithZeroCountHeader(sink)

----------------------------------------------------------------------------
(* Record-count guard *)

\* C11: write_frame_ext on a frame of more than 65535 points returns the
\* too-many-points error and leaves the sink as it was, so no header with a
\* wrapped record_count is emitted; a frame of up to 65535 points, 65535
\* included, is accepted and its header carries the point count itself.
C11_RecordCountGuard ==
  [][(api = "guard" /\ pc' = "write") =>
       LET len == arg'.len
       IN IF len > 65535
          THEN /\ result' = Err(ErrTooManyPoints)
               /\ sink' = sink
               /\ written' = written
               /\ elided' = elided
          ELSE /\ result'.kind = "Ok"
               /\ Len(sink') = Len(sink) + 32
               /\ HeaderBlockAt(sink', Len(sink))
               /\ WireRecordCount(sink', Len(sink)) = len
               /\ elided' = elided + len]_vars

\* a frame of 65536 points was refused after a frame of 65535 points was written
C11_Witness ==
  /\ api = "guard"
  /\ arg.type = "Frame" /\ arg.len = 65536
  /\ result.kind = "Err"
  /\ elided = 65535
  /\ Len(sink) = 32 /\ WireRecordCount(sink, 0) = 65535

----------------------------------------------------------------------------
(* A zero-count header only ends the stream *)

\* the offset in the sink of the k-th entry written
RECURSIVE EntryOffset(_, _)
EntryOffset(entries, k) ==
  IF k = 1 THEN 0
  ELSE EntryOffset(entries, k - 1) + Len(EntryBytes(entries[k - 1]))

\* C12: once an AnimationStreamWriter has been finalized or dropped, every
\* header block of its output whose record_count is 0 is the last header of
\* the output, whatever frames were written, frames without points included.
C12_ZeroCountOnlyFinal ==
  AnimClosed =>
    \A k \in 1..Len(written) :
      (/\ written[k].type = "Header"
       /\ WireRecordCount(sink, EntryOffset(written, k)) = 0)
        => k = Len(written)

----------------------------------------------------------------------------
(* Header decode layout *)

UnitDone(fn) == api = "unit" /\ pc = "done" /\ arg.fn = fn

\* C13: the header read_header returns for a 32-byte block that starts with
\* "ILDA" has format_code = byte 7, record_count = bytes 24-25, number = bytes
\* 26-27 and total_frames = bytes 28-29, big-endian, and projector_number =
\* byte 30; byte 31 has no effect on what is returned.
C13_HeaderDecodeLayout ==
  (UnitDone("read_header") /\ HeaderBlockAt(arg.v.bytes, 0) /\ Len(arg.v.bytes) = 32) =>
    /\ result.kind = "Ok"
    /\ Len(result.entries) = 1
    /\ LET header == result.entries[1]
           b == arg.v.bytes
       IN /\ header.format_code = At(b, 7)
          /\ header.record_count = At(b, 24) * 256 + At(b, 25)
          /\ header.number = At(b, 26) * 256 + At(b, 27)
          /\ header.total_frames = At(b, 28) * 256 + At(b, 29)
          /\ header.projector_number = At(b, 30)
    /\ result = read_header([arg.v.bytes EXCEPT ![32] = 0])

----------------------------------------------------------------------------
(* Header encode layout *)

\* byte k (0..7) of the 8-byte field of a name: the k-th byte of the string,
\* 0 past its end or when the name is absent
NameFieldByte(name, k) ==
  IF name.some /\ k < Len(as_bytes(name.s)) THEN At(as_bytes(name.s), k) ELSE 0

\* C14: IldaWriter::write of a Header hands the sink exactly 32 bytes: "ILDA",
\* three zero bytes, format_code, the name and the company name as their first
\* 8 bytes padded with zeros, record_count, number and total_frames
\* big-endian, projector_number and a zero byte; the reserved fields of the
\* header do not show in the bytes.
C14_HeaderEncodeLayout ==
  (api = "codec" /\ pc # "write" /\ arg.type = "Header") =>
    /\ Len(sink) = 32
    /\ At(sink, 0) = 73 /\ At(sink, 1) = 76 /\ At(sink, 2) = 68 /\ At(sink, 3) = 65
    /\ At(sink, 4) = 0 /\ At(sink, 5) = 0 /\ At(sink, 6) = 0
    /\ At(sink, 7) = arg.format_code
    /\ \A k \in 0..7 : At(sink, 8 + k) = NameFieldByte(arg.name, k)
    /\ \A k \in 0..7 : At(sink, 16 + k) = NameFieldByte(arg.company_name, k)
    /\ At(sink, 24) * 256 + At(sink, 25) = arg.record_count
    /\ At(sink, 26) * 256 + At(sink, 27) = arg.number
    /\ At(sink, 28) * 256 + At(sink, 29) = arg.total_frames
    /\ \A k \in 24..29 : At(sink, k) \in 0..255
    /\ At(sink, 30) = arg.projector_number
    /\ At(sink, 31) = 0

\* a header with non-zero reserved fields and a name of more than 8 bytes was
\* written
C14_Witness ==
  /\ api = "codec" /\ pc # "write" /\ arg.type = "Header"
  /\ arg.reserved # 0 /\ arg.reserved_2 # 0
  /\ arg.name.some /\ Len(as_bytes(arg.name.s)) > 8
  /\ arg.record_count = 65535 /\ arg.number = 258
  /\ Len(sink) = 32

----------------------------------------------------------------------------
(* Format mapping *)

FormatOfCode ==
  (0 :> "Indexed3d") @@ (1 :> "Indexed2d") @@ (2 :> "ColorPalette")
  @@ (4 :> "TrueColor3d") @@ (5 :> "TrueColor2d")

\* C15: get_format returns the format of the codes 0, 1, 2, 4 and 5 and the
\* InvalidHeader error for every other code, 3 and 6..255; the header that
\* Header::new builds for a format f has get_format() = f.
C15_FormatMapping ==
  /\ UnitDone("get_format") =>
       LET code == arg.v.format_code
       IN IF code \in DOMAIN FormatOfCode
          THEN result = Ok(<<FormatOfCode[code]>>)
          ELSE result = Err("InvalidHeader")
  /\ UnitDone("Header::new") =>
       /\ result.kind = "Ok"
       /\ Header_get_format(result.entries[1]) = Ok(<<arg.v.format>>)

\* get_format rejected the code 3, or Header::new built a true-colour 2D header
C15_Witness ==
  \/ UnitDone("get_format") /\ arg.v.format_code = 3 /\ result.kind = "Err"
  \/ /\ UnitDone("Header::new") /\ arg.v.format = "TrueColor2d"
     /\ result.kind = "Ok" /\ result.entries[1].format_code = 5

----------------------------------------------------------------------------
(* Record slices of a wrong length *)

WidthOfType ==
  ("ColorPalette" :> 3) @@ ("IdxPoint2d" :> 6) @@ ("IdxPoint3d" :> 8)
  @@ ("TcPoint2d" :> 8) @@ ("TcPoint3d" :> 10)

\* C16: a record type's read_bytes returns InvalidData, and no record, for a
\* slice whose length is not a multiple of the type's width (3, 6, 8, 8, 10),
\* and Ok with exactly k records of the type for a slice of k widths, k >= 0.
C16_RecordLength ==
  UnitDone("read_bytes") =>
    LET n == Len(arg.v.bytes)
        width == WidthOfType[arg.v.type]
    IN IF n % width # 0
       THEN result.kind = "Err" /\ result.err = "InvalidData" /\ result.entries = <<>>
       ELSE /\ result.kind = "Ok"
            /\ Len(result.entries) * width = n
            /\ \A k \in 1..Len(result.entries) : result.entries[k].type = arg.v.type

\* a slice of 7 bytes was refused, or one of 0 or 18 bytes gave 0, 3 or 6 records
C16_Witness ==
  /\ UnitDone("read_bytes")
  /\ \/ Len(arg.v.bytes) = 7 /\ result.kind = "Err"
     \/ Len(arg.v.bytes) = 0 /\ result.kind = "Ok" /\ result.entries = <<>>
     \/ Len(arg.v.bytes) = 18 /\ result.kind = "Ok" /\ Len(result.entries) \in {3, 6}

----------------------------------------------------------------------------
(* Blanking bit *)

\* C17: for a point of any of the four point types and any status_code in
\* 0..255, is_blank() is true exactly when bit 6 of the status code is set,
\* whatever the other bits are, the last-point bit 7 included.
C17_BlankingBit ==
  UnitDone("is_blank") =>
    /\ arg.v.status_code \in 0..255
    /\ result.kind = "Ok"
    /\ result.entries[1] = (arg.v.status_code % 128 >= 64)

\* is_blank was false for the status code 128 and true for 255
C17_Witness ==
  /\ UnitDone("is_blank")
  /\ \/ arg.v.status_code = 128 /\ result.entries = <<FALSE>>
     \/ arg.v.status_code = 255 /\ result.entries = <<TRUE>>

----------------------------------------------------------------------------
(* A header block without the magic *)

\* read_bytes is about to read a header from 32 bytes that do not start with
\* "ILDA"
AtBadMagic ==
  /\ pc = "loop" /\ next_read = "Header" /\ i < Len(input)
  /\ SliceInRange(input, i, i + 32)
  /\ Slice(input, i, i + 4) # <<73, 76, 68, 65>>

\* C18: when the bulk decoder comes to a 32-byte block at a header position
\* whose first four bytes are not "ILDA", the call returns the InvalidFormat
\* error and nothing else: the entries decoded so far are not returned and
\* nothing after the block is decoded.
C18_BadMagicRejected ==
  [][AtBadMagic =>
       /\ pc' = "done"
       /\ result' = [kind |-> "Err", err |-> "InvalidFormat", entries |-> <<>>]
       /\ vec' = vec /\ i' = i]_vars

\* the decoder returned the error at a second header, after it had decoded a
\* first frame
C18_Witness ==
  /\ api = "raw" /\ pc = "done"
  /\ result.kind = "Err" /\ result.err = "InvalidFormat"
  /\ Len(vec) = 2 /\ i = 40
  /\ SliceInRange(input, i, i + 32)
  /\ Slice(input, i, i + 4) # <<73, 76, 68, 65>>

----------------------------------------------------------------------------
(* The 40-byte true-colour stream *)

\* the header "ILDA", 0, 0, 0, 5, "TEST", "ACME", record_count 1, and the
\* record x = 0, y = 0, status = 0, b = 10, g = 20, r = 30
Stream40 ==
  <<73, 76, 68, 65, 0, 0, 0, 5,
    84, 69, 83, 84, 0, 0, 0, 0,
    65, 67, 77, 69, 0, 0, 0, 0,
    0, 1, 0, 0, 0, 0, 0, 0,
    0, 0, 0, 0, 0, 10, 20, 30>>

\* C19: read_bytes on the 40-byte stream returns exactly two entries: the
\* header with the true-colour 2D format, record_count 1, name "TEST" and
\* company "ACME", and a TrueColorPoint2d with x = 0, y = 0, r = 30, g = 20,
\* b = 10 that is not blank; the colour bytes are read as blue, green, red.
C19_Stream40Decoded ==
  (api = "raw" /\ pc = "done" /\ input = Stream40) =>
    /\ result.kind = "Ok"
    /\ Len(result.entries) = 2
    /\ LET header == result.entries[1]
           point == result.entries[2]
       IN /\ header.type = "Header"
          /\ Header_get_format(header) = Ok(<<"TrueColor2d">>)
          /\ header.record_count = 1
          /\ header.name = Some(<<84, 69, 83, 84>>)
          /\ header.company_name = Some(<<65, 67, 77, 69>>)
          /\ point.type = "TcPoint2d"
          /\ point.x = 0 /\ point.y = 0
          /\ point.r = 30 /\ point.g = 20 /\ point.b = 10
          /\ ~TrueColorPoint2d_is_blank(point)

\* the whole 40-byte stream was decoded
C19_Witness ==
  /\ api = "raw" /\ pc = "done" /\ input = Stream40
  /\ result.kind = "Ok" /\ i = 40

----------------------------------------------------------------------------
(* Name decoding *)

\* the 1-based position of the first zero byte, Len + 1 when there is none
FirstZero(bytes) ==
  IF \E k \in 1..Len(bytes) : bytes[k] = 0
  THEN CHOOSE k \in 1..Len(bytes) :
         bytes[k] = 0 /\ \A j \in 1..(k - 1) : bytes[j] # 0
  ELSE Len(bytes) + 1

Printable(byte) == byte >= 31

\* C20: read_name returns the bytes before the first 0x00 byte, in order and
\* without the bytes below 31, one char per byte, or None when no byte is
\* left; what follows the first 0x00 byte never shows in the name.
C20_NameDecoding ==
  UnitDone("read_name") =>
    LET bytes == arg.v.bytes
        kept == SelectSeq(SubSeq(bytes, 1, FirstZero(bytes) - 1), Printable)
    IN /\ result.kind = "Ok"
       /\ result.entries[1] = IF kept = <<>> THEN None ELSE Some(kept)
       /\ result.entries[1] = read_name(SubSeq(bytes, 1, FirstZero(bytes) - 1))

\* the field 102, 9, 0, 102 gave "f", or the field 0, 102 gave None
C20_Witness ==
  /\ UnitDone("read_name")
  /\ \/ arg.v.bytes = <<102, 9, 0, 102>> /\ result.entries = <<Some(<<102>>)>>
     \/ arg.v.bytes = <<0, 102>> /\ result.entries = <<None>>

----------------------------------------------------------------------------
(* Point iterator *)

\* the points of the frames 1..n of an animation, in frame order and in point
\* order within a frame
RECURSIVE PointsOfFrames(_, _)
PointsOfFrames(frames, n) ==
  IF n = 0 THEN <<>> ELSE PointsOfFrames(frames, n - 1) \o frames[n].points

\* C21: when next() of the iterator of into_point_iter returns None for the
\* first time, it has returned every point of every frame of the animation
\* exactly once, in frame order and in point order within a frame; frames
\* without points make no difference.
C21_AllPointsIterated ==
  (api = "iter" /\ pc = "done") =>
    yielded = PointsOfFrames(arg.frames, Len(arg.frames))

----------------------------------------------------------------------------
(* Default colour table *)

\* the colours the claim and the tests name
NamedColors ==
  (0 :> <<255, 0, 0>>) @@ (16 :> <<255, 255, 0>>) @@ (24 :> <<0, 255, 0>>)
  @@ (31 :> <<0, 255, 255>>) @@ (40 :> <<0, 0, 255>>) @@ (48 :> <<255, 0, 255>>)
  @@ (56 :> <<255, 255, 255>>) @@ (57 :> <<255, 224, 224>>)

\* C22: default_color_index returns white for every index outside 0..63, the
\* indices from 64 up and the negative ones, and a colour of the fixed table
\* for an index in 0..63: red for 0, yellow for 16, green for 24, cyan for 31,
\* blue for 40, magenta for 48, white for 56.
C22_DefaultColorIndex ==
  UnitDone("default_color_index") =>
    LET index == arg.v.index
        color == result.entries[1]
        rgb == <<color.r, color.g, color.b>>
    IN /\ result.kind = "Ok"
       /\ color.type = "ColorPalette"
       /\ (index < 0 \/ index >= 64) => rgb = <<255, 255, 255>>
       /\ index \in DOMAIN NamedColors => rgb = NamedColors[index]
       /\ index \in 0..63 =>
            /\ \A k \in 1..3 : rgb[k] \in 0..255
            /\ \E k \in 1..3 : rgb[k] = 255

\* white was returned for 64 or -5, or blue for 40
C22_Witness ==
  /\ UnitDone("default_color_index")
  /\ \/ arg.v.index \in {64, -5} /\ result.entries[1].g = 255 /\ result.entries[1].b = 255
     \/ arg.v.index = 40 /\ result.entries[1].b = 255 /\ result.entries[1].r = 0

----------------------------------------------------------------------------
(* Entry to point *)

\* C23: ilda_entry_to_point returns InvalidData for a Header and Unsupported
\* for a ColorPalette; for a point of any of the four types it returns a
\* SimplePoint with the x and y of the entry, is_blank equal to bit 6 of the
\* status code, and r, g, b of the entry itself when it is a true-colour
\* point, of default_color_index(color_index) when it is an indexed point.
C23_EntryToPoint ==
  UnitDone("ilda_entry_to_point") =>
    LET entry == arg.v
    IN CASE entry.type = "Header" -> result = Err("InvalidData")
         [] entry.type = "ColorPalette" -> result = Err("Unsupported")
         [] OTHER ->
              /\ result.kind = "Ok" /\ Len(result.entries) = 1
              /\ LET point == result.entries[1]
                     color == IF entry.type \in {"TcPoint2d", "TcPoint3d"}
                              THEN <<entry.r, entry.g, entry.b>>
                              ELSE IF entry.color_index \in 0..63
                              THEN DefaultColors[entry.color_index + 1]
                              ELSE <<255, 255, 255>>
                 IN /\ point.x = entry.x /\ point.y = entry.y
                    /\ point.is_blank = (entry.status_code % 128 >= 64)
                    /\ <<point.r, point.g, point.b>> = color

\* an indexed point with colour index 57 and the blanking bit became a blank
\* point of the colour (255, 224, 224)
C23_Witness ==
  /\ UnitDone("ilda_entry_to_point")
  /\ arg.v.type = "IdxPoint2d" /\ arg.v.color_index = 57 /\ arg.v.status_code = 64
  /\ result.kind = "Ok"
  /\ result.entries[1] = [x |-> 10000, y |-> -10000, r |-> 255, g |-> 224,
                          b |-> 224, is_blank |-> TRUE]

----------------------------------------------------------------------------
(* Runs of several records *)

\* the k-th chunk (1-based) of the given width
Chunk(bytes, width, k) == Slice(bytes, (k - 1) * width, k * width)

\* C24: when a record type's read_bytes is given two or more records in one
\* slice, the k-th record it returns is the record of the k-th chunk of the
\* slice, every field of it, the colour bytes of a true-colour 3D record
\* (bytes 7, 8 and 9 of its chunk) among them.
C24_MultiRecord ==
  (UnitDone("read_bytes") /\ result.kind = "Ok" /\ Len(result.entries) >= 2) =>
    LET type == arg.v.type
        width == WidthOfType[type]
    IN \A k \in 1..Len(result.entries) :
         LET record == result.entries[k]
             chunk == Chunk(arg.v.bytes, width, k)
         IN /\ <<record>> = RecordReadBytes(type, chunk).entries
            /\ type = "TcPoint3d" =>
                 /\ record.b = At(chunk, 7)
                 /\ record.g = At(chunk, 8)
                 /\ record.r = At(chunk, 9)

----------------------------------------------------------------------------
(* Frame grouping *)

IsPointItem(item) ==
  item.ok /\ item.entry.type \in {"IdxPoint3d", "IdxPoint2d", "TcPoint3d", "TcPoint2d"}

\* the points of the items lo..hi of a stream, converted one by one
PointsOfItems(items, lo, hi) ==
  [k \in 1..(hi - lo + 1) |-> ilda_entry_to_point(items[lo + k - 1].entry).entries[1]]

\* what the claim says of next_frame on the stream items, c being the
\* record_count of a first header
FrameGrouped(items, c) ==
  /\ result.kind = "Ok" /\ Len(result.entries) = 1
  /\ Len(result.entries[1].points) = c
  /\ result.entries[1].points = PointsOfItems(items, 2, 1 + c)
  /\ iter.pos = 1 + c

\* C25 as stated, for a stream whose iterator reports no error: Ok(None) at
\* the end of the stream and at a header with record_count 0, InvalidData for
\* a record where a header is due and for a stream that ends within the run,
\* and in every other case a frame of record_count points, 1 + record_count
\* entries having been consumed.
C25_Original ==
  (UnitDone("next_frame") /\ \A k \in 1..Len(arg.v.items) : arg.v.items[k].ok) =>
    LET items == arg.v.items
    IN IF items = <<>> THEN result = Ok(<<>>)
       ELSE IF items[1].entry.type # "Header" THEN result = Err("InvalidData")
       ELSE IF items[1].entry.record_count = 0 THEN result = Ok(<<>>)
       ELSE IF Len(items) < 1 + items[1].entry.record_count
       THEN result = Err("InvalidData")
       ELSE FrameGrouped(items, items[1].entry.record_count)

\* the first item of the run 2..1+c that is not a point, 0 when there is none
FirstNonPoint(items, c) ==
  LET last == IF Len(items) < 1 + c THEN Len(items) ELSE 1 + c
      bad == {k \in 2..last : ~IsPointItem(items[k])}
  IN IF bad = {} THEN 0 ELSE CHOOSE k \in bad : \A j \in bad : k <= j

\* C25, amended: as stated when the entries of the run are point records;
\* the first entry of the run that is not one ends the call with Unsupported
\* for a palette entry and InvalidData for a header, and an error of the
\* iterator, at the header or in the run, is returned as it is.
C25_FrameGrouping ==
  UnitDone("next_frame") =>
    LET items == arg.v.items
    IN IF items = <<>> THEN result = Ok(<<>>) /\ iter.pos = 0
       ELSE IF ~items[1].ok THEN result = Err(items[1].err) /\ iter.pos = 1
       ELSE IF items[1].entry.type # "Header"
       THEN result = Err("InvalidData") /\ iter.pos = 1
       ELSE IF items[1].entry.record_count = 0 THEN result = Ok(<<>>) /\ iter.pos = 1
       ELSE LET c == items[1].entry.record_count
                bad == FirstNonPoint(items, c)
            IN IF bad # 0
               THEN /\ iter.pos = bad
                    /\ result = IF ~items[bad].ok THEN Err(items[bad].err)
                                ELSE IF items[bad].entry.type = "ColorPalette"
                                THEN Err("Unsupported")
                                ELSE Err("InvalidData")
               ELSE IF Len(items) < 1 + c
               THEN result = Err("InvalidData") /\ iter.pos = Len(items)
               ELSE FrameGrouped(items, c)

\* a header with record_count 2 and two points gave a frame of the two points
C25_Witness ==
  /\ UnitDone("next_frame")
  /\ Len(arg.v.items) = 3 /\ arg.v.items[1].entry.type = "Header"
  /\ arg.v.items[1].entry.record_count = 2
  /\ result.kind = "Ok" /\ Len(result.entries) = 1
  /\ Len(result.entries[1].points) = 2
  /\ iter.pos = 3

----------------------------------------------------------------------------
(* C26: decoder progress and termination *)

\* the record width the pending NextRead selects
WidthOfNextRead ==
  CASE next_read = "I3d" -> INDEXED_3D_DATA_SIZE
    [] next_read = "I2d" -> INDEXED_2D_DATA_SIZE
    [] next_read = "Color" -> COLOR_PALETTE_SIZE
    [] next_read = "Tc3d" -> TRUE_COLOR_3D_DATA_SIZE
    [] next_read = "Tc2d" -> TRUE_COLOR_2D_DATA_SIZE
    [] OTHER -> 0

\* what is left to do: the bytes after the offset, counted twice, plus one
\* while a record run is pending
C26_Measure(len, offset, nr) == 2 * (len - offset) + (IF nr = "Header" THEN 0 ELSE 1)

\* one turn of the loop: the offset does not decrease; a turn that stays in
\* the loop advances it by 32 after a header and by record_count times the
\* width after a run, and leaves strictly less to do
C26_ProgressStep ==
  pc = "loop" =>
    /\ i' >= i
    /\ pc' = "loop" =>
         /\ next_read = "Header" => i' = i + 32
         /\ next_read # "Header" => i' = i + frames_to_read * WidthOfNextRead
         /\ C26_Measure(Len(input), i', next_read') < C26_Measure(Len(input), i, next_read)
         /\ C26_Measure(Len(input), i', next_read') >= 0

\* the progress part of C26 alone
C26_Progress == [][C26_ProgressStep]_vars

\* C26: in read_bytes the read offset never decreases, advances by exactly 32
\* for each header and by record_count times the record width for each record
\* run, and every turn of the loop leaves strictly less to do, so that the loop
\* ends; and the call ends with a result or an error, on every input,
\* zero-count headers included.
C26_ProgressAndTermination ==
  [][/\ C26_ProgressStep
     /\ (pc = "loop" /\ pc' = "done") => result'.kind \in {"Ok", "Err"}]_vars

\* a run of zero records was read in the middle of the input
C26_ZeroRunRead ==
  /\ pc = "loop" /\ next_read = "Header" /\ frames_to_read = 0
  /\ i > 0 /\ i < Len(input)

----------------------------------------------------------------------------
(* the 16-bit sessions: one call of read_u16, read_i16 or u16_be, on every *)
(* byte pair and every 16-bit value                                        *)

Word(value) == [value |-> value]

\* u16_be takes a u16; the writer hands it the i16 coordinates `as u16`
WordCall ==
  \/ \E hi \in 0..255, lo \in 0..255 :
       \/ arg = Call("read_u16", Bytes(<<hi, lo>>))
       \/ arg = Call("read_i16", Bytes(<<hi, lo>>))
  \/ \E v \in 0..U16_MAX : arg = Call("u16_be", Word(v))
  \/ \E x \in -32768..32767 : arg = Call("u16_be as u16", Word(x))

WordInit ==
  /\ api = "unit"
  /\ pc = "call"
  /\ WordCall
  /\ sink = <<>>
  /\ written = <<>>
  /\ finalized = FALSE
  /\ finishCount = 0
  /\ closedBy = "none"
  /\ input = <<>>
  /\ i = 0
  /\ next_read = "Header"
  /\ frames_to_read = 0
  /\ vec = <<>>
  /\ result = Pending
  /\ elided = 0
  /\ iter = NoEntry
  /\ yielded = <<>>

UnitReadU16 == UnitReturn("read_u16", Ok(<<read_u16(arg.v.bytes)>>))

UnitReadI16 == UnitReturn("read_i16", Ok(<<read_i16(arg.v.bytes)>>))

UnitU16Be == UnitReturn("u16_be", Ok(<<u16_be(arg.v.value)>>))

\* `u16_be(point.x as u16)`
UnitU16BeCast == UnitReturn("u16_be as u16", Ok(<<u16_be(AsU16(arg.v.value))>>))

WordNext ==
  \/ UnitReadU16
  \/ UnitReadI16
  \/ UnitU16Be
  \/ UnitU16BeCast

SpecWord == WordInit /\ [][WordNext]_vars

----------------------------------------------------------------------------
(* C27: 16-bit integer coding *)

\* C27: for every byte pair (hi, lo), read_u16 returns 256*hi + lo and
\* read_i16 returns that value as 16-bit two's complement (256*hi + lo - 65536
\* when hi >= 128); u16_be is their inverse: read_u16(u16_be(v)) = v for every
\* u16 v and read_i16(u16_be(x as u16)) = x for every i16 x.
C27_WordCoding ==
  /\ UnitDone("read_u16") =>
       result.entries[1] = 256 * arg.v.bytes[1] + arg.v.bytes[2]
  /\ UnitDone("read_i16") =>
       result.entries[1] =
         IF arg.v.bytes[1] >= 128
         THEN 256 * arg.v.bytes[1] + arg.v.bytes[2] - 65536
         ELSE 256 * arg.v.bytes[1] + arg.v.bytes[2]
  /\ UnitDone("u16_be") =>
       /\ Len(result.entries[1]) = 2
       /\ \A k \in 1..2 : result.entries[1][k] \in 0..255
       /\ read_u16(result.entries[1]) = arg.v.value
  /\ UnitDone("u16_be as u16") =>
       /\ Len(result.entries[1]) = 2
       /\ \A k \in 1..2 : result.entries[1][k] \in 0..255
       /\ read_i16(result.entries[1]) = arg.v.value

\* read_i16 has returned for the pair (128, 255), the -32513 of the crate's test
C27_Witness ==
  /\ UnitDone("read_i16")
  /\ arg.v.bytes = <<128, 255>>
  /\ result.entries[1] = -32513

----------------------------------------------------------------------------
(* the sink sessions: one IldaWriter::write on a sink whose write call may  *)
(* accept all of a buffer, a part of it, or fail                            *)

ErrIoError == "IoError"

\* the buffers IldaWriter::write hands to inner.write, in order
EntryChunks(entry) ==
  CASE entry.type = "Header" ->
         << ILDA_HEADER,
            <<0, 0, 0, entry.format_code>>,
            str_8c(entry.name),
            str_8c(entry.company_name),
            u16_be(entry.record_count),
            u16_be(entry.number),
            u16_be(entry.total_frames),
            <<entry.projector_number>>,
            <<0>> >>
    [] entry.type = "TcPoint3d" ->
         << u16_be(AsU16(entry.x)), u16_be(AsU16(entry.y)), u16_be(AsU16(entry.z)),
            <<entry.status_code>>, <<entry.b>>, <<entry.g>>, <<entry.r>> >>
    [] entry.type = "TcPoint2d" ->
         << u16_be(AsU16(entry.x)), u16_be(AsU16(entry.y)),
            <<entry.status_code>>, <<entry.b>>, <<entry.g>>, <<entry.r>> >>
    [] entry.type = "ColorPalette" ->
         << <<entry.r>>, <<entry.g>>, <<entry.b>> >>
    [] entry.type = "IdxPoint3d" ->
         << u16_be(AsU16(entry.x)), u16_be(AsU16(entry.y)), u16_be(AsU16(entry.z)),
            <<entry.status_code>>, <<entry.color_index>> >>
    [] entry.type = "IdxPoint2d" ->
         << u16_be(AsU16(entry.x)), u16_be(AsU16(entry.y)),
            <<entry.status_code>>, <<entry.color_index>> >>

\* what one call of io::Write::write may do with a buffer: take all of it,
\* take all but its last byte and report the count, or fail
WriteOutcomes == {"all", "short", "err"}

\* the bytes a call takes from buf
Accepted(buf, outcome) ==
  IF outcome = "short" THEN Slice(buf, 0, Len(buf) - 1) ELSE buf

\* `self.inner.write(buf)?` for the k-th buffer onwards: the count a call
\* returns is dropped, an error ends the function
RECURSIVE WriteChunks(_, _, _, _)
WriteChunks(bytes, chunks, outcomes, k) ==
  IF k > Len(chunks) THEN [sink |-> bytes, result |-> Ok(<<>>)]
  ELSE IF outcomes[k] = "err" THEN [sink |-> bytes, result |-> Err(ErrIoError)]
  ELSE WriteChunks(bytes \o Accepted(chunks[k], outcomes[k]), chunks, outcomes, k + 1)

\* IldaWriter::write on such a sink
IldaWriter_write_to(bytes, entry, outcomes) ==
  WriteChunks(bytes, EntryChunks(entry), outcomes, 1)

SinkInit ==
  /\ api = "sink"
  /\ pc = "call"
  /\ arg \in EntrySamples
  /\ sink = <<>>
  /\ written = <<>>
  /\ finalized = FALSE
  /\ finishCount = 0
  /\ closedBy = "none"
  /\ input = <<>>
  /\ i = 0
  /\ next_read = "Header"
  /\ frames_to_read = 0
  /\ vec = <<>>
  /\ result = Pending
  /\ elided = 0
  /\ iter = NoEntry
  /\ yielded = <<>>

SinkWrite ==
  /\ api = "sink" /\ pc = "call"
  /\ \E outcomes \in [1..Len(EntryChunks(arg)) -> WriteOutcomes] :
       LET r == IldaWriter_write_to(sink, arg, outcomes)
       IN /\ sink' = r.sink
          /\ written' = Append(written, arg)
          /\ Return(r.result)
  /\ UNCHANGED <<api, finalized, finishCount, closedBy, input, i, next_read, frames_to_read, vec, arg, elided, iter, yielded>>

SinkNext == SinkWrite

SpecSink == SinkInit /\ [][SinkNext]_vars

----------------------------------------------------------------------------
(* C28: complete writes *)

\* C28: for every sink, one whose write call may accept fewer bytes than
\* offered included, whenever IldaWriter::write(entry) returns Ok the sink has
\* received exactly the bytes of the entry, all of its fixed width, in layout
\* order.
C28_CompleteWrites ==
  (api = "sink" /\ pc = "done" /\ result.kind = "Ok") =>
    /\ Len(sink) = IF arg.type = "Header" THEN HEADER_SIZE ELSE WidthOfType[arg.type]
    /\ sink = EntryBytes(arg)

----------------------------------------------------------------------------
(* C29: the status bits written by write_frame_ext *)

\* C29: in every frame of n >= 1 points that write_frame_ext writes, the
\* status_code of the final point has bit 7 set and that of every earlier
\* point has it clear, the bit 6 of each point is set exactly when the source
\* point's is_blank is true, and no other bit is set; the status byte in the
\* sink is that status_code.
C29_StatusBits ==
  UnitDone("write_frame_ext") =>
    LET points == arg.v.frame.points
        n == Len(points)
    IN /\ Len(written) = 1 + n
       /\ \A k \in 1..n :
            LET status_code == written[1 + k].status_code
            IN /\ written[1 + k].type = "TcPoint2d"
               /\ (BitAnd(status_code, 128) = 128) <=> (k = n)
               /\ (BitAnd(status_code, 64) = 64) <=> points[k].is_blank
               /\ BitAnd(status_code, 63) = 0
               /\ status_code \in 0..255
               /\ At(sink, HEADER_SIZE + TRUE_COLOR_2D_DATA_SIZE * (k - 1) + 4) = status_code

\* a frame of three points was written whose first and last point are blanked
C29_Witness ==
  /\ UnitDone("write_frame_ext")
  /\ Len(arg.v.frame.points) = 3
  /\ arg.v.frame.points[1].is_blank
  /\ ~arg.v.frame.points[2].is_blank
  /\ arg.v.frame.points[3].is_blank
  /\ written[2].status_code = 64
  /\ written[3].status_code = 0
  /\ written[4].status_code = 192

----------------------------------------------------------------------------
(* the animation sessions: one Animation::write into an empty sink *)

ErrTooManyFrames == "TooManyFrames"

\* Animation::write: `len > u16::max_value() as usize`
TooManyFrames(len) == len > U16_MAX

\* the loop of Animation::write from the k-th frame on, then finalize(); an
\* error of write_frame_ext leaves the function, and the streamer is dropped
RECURSIVE WriteFrames(_, _, _)
WriteFrames(streamer, frames, k) ==
  IF k > Len(frames)
  THEN [w |-> finalize(streamer), closedBy |-> "finalize", result |-> Ok(<<>>)]
  ELSE IF TooManyPoints(Len(frames[k].points))
  THEN [w |-> drop(streamer), closedBy |-> "drop", result |-> Err(ErrTooManyPoints)]
  ELSE WriteFrames(write_frame_ext(streamer, frames[k], AsU16(k - 1), AsU16(Len(frames))),
                   frames, k + 1)

\* Animation::write: the streamer exists before the frame count is looked at,
\* and is dropped when the function returns early
Animation_write(w, frames) ==
  LET streamer == [w EXCEPT !.finalized = FALSE]
      len == Len(frames)
  IN IF TooManyFrames(len)
     THEN [w |-> drop(streamer), closedBy |-> "drop", result |-> Err(ErrTooManyFrames)]
     ELSE WriteFrames(streamer, frames, 1)

\* animations of 0 to MaxAnimFrames frames, and two of more than 65535 frames
AnimationWriteSamples ==
  UNION { [1..n -> FrameSamples] : n \in 0..MaxAnimFrames }
  \cup { [k \in 1..n |-> Frame(<<>>, None, None)] : n \in {U16_MAX + 1, U16_MAX + 2} }

AnimInit ==
  /\ api = "animation"
  /\ pc = "call"
  /\ arg \in { [type |-> "Animation", frames |-> a] : a \in AnimationWriteSamples }
  /\ sink = <<>>
  /\ written = <<>>
  /\ finalized = FALSE
  /\ finishCount = 0
  /\ closedBy = "none"
  /\ input = <<>>
  /\ i = 0
  /\ next_read = "Header"
  /\ frames_to_read = 0
  /\ vec = <<>>
  /\ result = Pending
  /\ elided = 0
  /\ iter = NoEntry
  /\ yielded = <<>>

AnimationWrite ==
  /\ api = "animation" /\ pc = "call"
  /\ LET r == Animation_write(WriterState, arg.frames)
     IN /\ SetWriter(r.w)
        /\ closedBy' = r.closedBy
        /\ Return(r.result)
  /\ UNCHANGED <<api, input, i, next_read, frames_to_read, vec, arg, elided, iter, yielded>>

AnimNext == AnimationWrite

SpecAnim == AnimInit /\ [][AnimNext]_vars

----------------------------------------------------------------------------
(* C30: Animation::write and the frame count *)

\* the position in `written` of the header of the k-th frame
RECURSIVE FrameStart(_, _)
FrameStart(frames, k) ==
  IF k = 1 THEN 1 ELSE FrameStart(frames, k - 1) + 1 + Len(frames[k - 1].points)

\* C30: Animation::write on an animation of more than 65535 frames returns
\* TooManyFrames and leaves the sink unchanged, no byte being written during
\* the call or when the internal stream writer is dropped; with at most 65535
\* frames, frame i is written with header number = i and total_frames = the
\* frame count.
C30_AnimationWrite ==
  (api = "animation" /\ pc = "done") =>
    LET frames == arg.frames
        len == Len(frames)
    IN /\ len > U16_MAX =>
            /\ result = Err(ErrTooManyFrames)
            /\ sink = <<>>
       /\ len <= U16_MAX =>
            /\ result.kind = "Ok"
            /\ \A k \in 1..len :
                 LET header == written[FrameStart(frames, k)]
                 IN /\ header.type = "Header"
                    /\ header.number = k - 1
                    /\ header.total_frames = len
                    /\ header.record_count = Len(frames[k].points)

\* the part of C30 on animations of at most 65535 frames
C30_SmallAnimations ==
  (api = "animation" /\ pc = "done" /\ Len(arg.frames) <= U16_MAX) => C30_AnimationWrite

=============================================================================
